---- MODULE Spec2Model ----
(***************************************************************************)
(* A model of the request execution layer of lifi-mcp: the transaction     *)
(* execution engine (execute-quote, approve-token, transfer-token,         *)
(* transfer-native), the rate-limited retrying HTTP client, the chain      *)
(* cache, and the inbound side of the quote tools (credential extraction,  *)
(* argument validation, panic recovery).                                   *)
(*                                                                         *)
(* Strings the code parses are sequences of one-character strings, so that *)
(* parsing is computed and not assumed.                                    *)
(***************************************************************************)
EXTENDS Naturals, Integers, Sequences, FiniteSets, TLC

(***************************************************************************)
(* Strings and the conversions the handlers apply to them.                 *)
(***************************************************************************)

\* n copies of the character c.
Rep(c, n) == [i \in 1..n |-> c]

\* The value of a character as a digit (math/big and strconv: 0-9, a-z, A-Z);
\* 36 stands for "no digit in any base up to 16".
DigitVal(c) ==
  CASE c = "0" -> 0 [] c = "1" -> 1 [] c = "2" -> 2 [] c = "3" -> 3
    [] c = "4" -> 4 [] c = "5" -> 5 [] c = "6" -> 6 [] c = "7" -> 7
    [] c = "8" -> 8 [] c = "9" -> 9
    [] c \in {"a", "A"} -> 10 [] c \in {"b", "B"} -> 11
    [] c \in {"c", "C"} -> 12 [] c \in {"d", "D"} -> 13
    [] c \in {"e", "E"} -> 14 [] c \in {"f", "F"} -> 15
    [] OTHER -> 36

\* unicode.ToLower on the letters the model uses.
LowerChar(c) ==
  CASE c = "A" -> "a" [] c = "B" -> "b" [] c = "C" -> "c" [] c = "D" -> "d"
    [] c = "E" -> "e" [] c = "F" -> "f" [] c = "X" -> "x" [] c = "Z" -> "z"
    [] c = "I" -> "i" [] c = "N" -> "n"
    [] OTHER -> c

ToLower(s) == [i \in 1..Len(s) |-> LowerChar(s[i])]

\* strings.EqualFold
EqualFold(a, b) == ToLower(a) = ToLower(b)

\* strings.HasPrefix(s, "0x")
HasPrefix0x(s) == Len(s) >= 2 /\ s[1] = "0" /\ s[2] = "x"

\* s[2:]
Drop2(s) == SubSeq(s, 3, Len(s))

\* The number of leading characters of s that are digits in the base.
RECURSIVE DigitPrefixLen(_, _)
DigitPrefixLen(s, base) ==
  IF s = <<>> \/ DigitVal(Head(s)) >= base THEN 0
  ELSE 1 + DigitPrefixLen(Tail(s), base)

\* The value of a sequence of digits of the base.
RECURSIVE DigitsValue(_, _)
DigitsValue(s, base) ==
  IF s = <<>> THEN 0
  ELSE DigitsValue(SubSeq(s, 1, Len(s) - 1), base) * base + DigitVal(s[Len(s)])

\* (*big.Int).SetString(s, base) for base 10 or 16: [ok, z], z being the
\* receiver after the call.  On failure the receiver keeps what the scanner
\* had read: the digits before the offending character, or 0 without digits.
SetString(s, base) ==
  LET neg  == s # <<>> /\ s[1] = "-"
      sgn  == s # <<>> /\ s[1] \in {"+", "-"}
      body == IF sgn THEN Tail(s) ELSE s
      n    == DigitPrefixLen(body, base)
      mag  == DigitsValue(SubSeq(body, 1, n), base)
  IN  [ok |-> n > 0 /\ n = Len(body),
       z  |-> IF neg THEN 0 - mag ELSE mag]

\* strconv.ParseInt(s, base, 64) for base 10 or 16: [ok, v]; every character
\* after the sign must be a digit of the base.
ParseInt(s, base) ==
  LET neg  == s # <<>> /\ s[1] = "-"
      sgn  == s # <<>> /\ s[1] \in {"+", "-"}
      body == IF sgn THEN Tail(s) ELSE s
      good == body # <<>> /\ DigitPrefixLen(body, base) = Len(body)
      mag  == IF good THEN DigitsValue(body, base) ELSE 0
  IN  [ok |-> good, v |-> IF neg THEN 0 - mag ELSE mag]

\* hex.DecodeString(s) succeeds: an even number of hexadecimal digits.
HexDecodes(s) == Len(s) % 2 = 0 /\ DigitPrefixLen(s, 16) = Len(s)

\* common.IsHexAddress: an optional 0x or 0X, then 2 * AddressLength = 40
\* hexadecimal digits.
IsHexAddress(s) ==
  LET body == IF Len(s) >= 2 /\ s[1] = "0" /\ s[2] \in {"x", "X"}
              THEN Drop2(s) ELSE s
  IN  Len(body) = 40 /\ DigitPrefixLen(body, 16) = Len(body)

\* common.HexToAddress on a string IsHexAddress accepts: the 20 bytes, written
\* as 40 lower-case digits.
HexToAddress(s) ==
  ToLower(IF Len(s) >= 2 /\ s[1] = "0" /\ s[2] \in {"x", "X"} THEN Drop2(s) ELSE s)

\* A gas limit without the buffer.
AddGasBufferNone(g) == g

\* uint64(float64(g) * 1.2): for every g below 2^50 the float64 product,
\* truncated, is the integer part of 12 g / 10.
AddGasBuffer(g) == (g * 12) \div 10

(***************************************************************************)
(* JSON values of the untyped argument maps.                               *)
(***************************************************************************)

Absent   == [t |-> "absent", s |-> <<>>, n |-> 0]
Str(s)   == [t |-> "string", s |-> s, n |-> 0]
Num(n)   == [t |-> "number", s |-> <<>>, n |-> n]
\* A value that is neither a string nor a number (a boolean, an object).
OtherVal == [t |-> "other", s |-> <<>>, n |-> 0]

\* A *big.Int that may be nil.
NilInt   == [isNil |-> TRUE, v |-> 0]
BigInt(v) == [isNil |-> FALSE, v |-> v]

(***************************************************************************)
(* The inputs the model draws from.                                        *)
(***************************************************************************)

\* walletAddress.Hex(): the checksummed (mixed-case) address of the held key.
WalletHex   == <<"0", "x">> \o Rep("A", 20) \o Rep("b", 20)
OtherHex    == <<"0", "x">> \o Rep("1", 40)
TokenHex    == <<"0", "x">> \o Rep("c", 40)
ZeroAddress == <<"0", "x">> \o Rep("0", 40)
BadHex      == <<"0", "x", "1", "2">>

\* The RPC nodes a call may talk to: the chain id they report and the base
\* fee of their latest block header (0: the header has no base fee).
Nodes == [chainId : {1, 10}, baseFee : {0, 3}]

Estimates      == {21001, 100000}   \* results of eth_estimateGas
TokenBalances  == {100, 200}        \* results of balanceOf
NativeBalances == {100, 42150, 147150}  \* results of eth_getBalance
GasPrices      == {2}               \* results of eth_gasPrice
TipCaps        == {1}               \* results of eth_maxPriorityFeePerGas
Nonces         == {7}               \* results of eth_getTransactionCount

AmountStrings ==
  { <<>>, <<"z">>, <<"0">>, <<"-", "5">>, <<"1", "0", "0">>, <<"2", "0", "0">> }

\* The transaction descriptor a quote normally carries, and the values each
\* of its fields is varied over.
DefaultTx ==
  [to |-> Str(OtherHex), data |-> Str(<<"0", "x", "a", "b">>), value |-> Absent,
   from |-> Absent, chainId |-> Absent, gasPrice |-> Absent, gasLimit |-> Absent]

ToVals       == {Str(OtherHex), Absent, Str(<<>>), Num(1)}
DataVals     == {Str(<<"0", "x", "a", "b">>), Absent, Str(<<"0", "x", "z">>), Num(1)}
ValueVals    == {Absent, Str(<<"0", "x", "1">>), Num(1)}
FromVals     == {Absent, Str(WalletHex), Str(ToLower(WalletHex)), Str(OtherHex), Num(1)}
ChainIdVals  ==
  {Absent, Num(1), Num(10), Str(<<"1">>), Str(<<"1", "0">>), Str(<<"0", "x", "a">>),
   Str(<<"0", "x", "1">>), Str(<<"1", "z">>), Str(<<"z">>), OtherVal}
GasPriceVals == {Absent, Str(<<"0", "x", "5">>)}
GasLimitVals == {Absent, Str(<<"0", "x", "5", "2", "0", "8">>), Str(<<"z">>), Num(21000)}

TxFields == {"to", "data", "value", "from", "chainId", "gasPrice", "gasLimit"}

\* How many fields of a descriptor differ from the default one.
Deviations(d) == Cardinality({f \in TxFields : d[f] # DefaultTx[f]})

MaxDeviations == 2

TxRequests ==
  { d \in [to : ToVals, data : DataVals, value : ValueVals, from : FromVals,
           chainId : ChainIdVals, gasPrice : GasPriceVals, gasLimit : GasLimitVals] :
      Deviations(d) <= MaxDeviations }

(***************************************************************************)
(* The transaction execution engine: one tool call at a time, one action   *)
(* per step of its handler.                                                *)
(***************************************************************************)

VARIABLES
  privateKey,   \* s.privateKey # nil
  tool,         \* the tool being served, "none" between calls
  args,         \* its arguments
  pc,           \* the position in the handler: an index into Program(tool)
  node,         \* the RPC node the call is connected to
  loc,          \* the handler's local variables
  trace,        \* the steps the call has performed, in order: [op, ok]
  sent,         \* the transactions the call has broadcast
  result        \* the tool result, NoResult while the call runs

txVars == <<privateKey, tool, args, pc, node, loc, trace, sent, result>>

\* The state of the HTTP client and of its callers (see below).
VARIABLES
  now,          \* the clock, in ticks
  tokens,       \* rateLimiter.tokens
  lastRefill,   \* rateLimiter.lastRefill
  mu,           \* the holder of rateLimiter.mu, "free" if none
  hpc,          \* where each caller is in Get/Post
  attempt,      \* the loop variable of doWithRetry
  ctxDone,      \* the caller's context is cancelled
  wakeAt,       \* when the caller's time.After(waitTime) fires in acquire
  acquired,     \* what the caller's last acquire returned
  lastErr,      \* lastErr of doWithRetry
  delay,        \* the backoff the caller sleeps, in milliseconds
  ret,          \* what Get/Post returned
  hlog,         \* what the call has done, in order
  admitted      \* how many acquires have returned nil since newRateLimiter

httpVars ==
  <<now, tokens, lastRefill, mu, hpc, attempt, ctxDone, wakeAt, acquired,
    lastErr, delay, ret, hlog, admitted>>

\* The chain cache and the goroutines that look chains up (see below).
VARIABLES
  chainsCache,             \* chainsCache.Chains: [data, len]
  chainsCacheInitialized,  \* chainsCacheInitialized
  chainsCacheMu,           \* the writer and the readers that hold the lock
  directory,               \* the version of the upstream chain directory
  cpc,                     \* where each goroutine is in its lookup
  cloc                     \* the lookup's local variables

cacheVars ==
  <<chainsCache, chainsCacheInitialized, chainsCacheMu, directory, cpc, cloc>>

\* The inbound tool calls (see below).
VARIABLES
  inb,       \* each inbound call: its request, its context, what it has done
  serving    \* the process is alive

apiVars == <<inb, serving>>

\* The tool calls that submit transactions concurrently (see below).
VARIABLES
  wpc,           \* where each submitting call is in its handler
  wloc,          \* its tool, the nonce it has read, what it returned
  pendingNonce,  \* the node's count of the wallet's transactions
  broadcasts     \* the transactions sent to the node, in order: [call, nonce]

nonceVars == <<wpc, wloc, pendingNonce, broadcasts>>

vars == <<txVars, httpVars, cacheVars, apiVars, nonceVars>>

NoArgs ==
  [rpcUrl |-> "", tokenAddress |-> <<>>, spenderAddress |-> <<>>, to |-> <<>>,
   amount |-> <<>>, hasTx |-> FALSE, txRequest |-> DefaultTx]

NoNode == [chainId |-> 0, baseFee |-> 0]

NoTx ==
  [type |-> "none", chainId |-> 0, nonce |-> 0, gasPrice |-> 0, gasTipCap |-> 0,
   gasFeeCap |-> 0, gas |-> 0, to |-> <<>>, value |-> 0, signer |-> 0]

\* The locals of a handler before it has assigned them.  baseFee = 0 is a nil
\* head.BaseFee; estimate is the raw result of EstimateGas; tx is signedTx.
InitLoc ==
  [chainID |-> 0, requestChainID |-> NilInt, value |-> 0, amount |-> 0,
   gasPrice |-> 0, gasTipCap |-> 0, maxFeePerGas |-> 0, baseFee |-> 0,
   gasLimit |-> 0, estimate |-> 0, balance |-> 0, nonce |-> 0, tx |-> NoTx]

NoResult  == [isError |-> FALSE, msg |-> "", have |-> 0, need |-> 0]
Err(m)    == [isError |-> TRUE, msg |-> m, have |-> 0, need |-> 0]
ErrHaveNeed(m, h, n) == [isError |-> TRUE, msg |-> m, have |-> h, need |-> n]
Ok        == [isError |-> FALSE, msg |-> "transactionHash", have |-> 0, need |-> 0]

\* The order of the steps of each handler after its argument checks.
ExecuteTransactionSteps ==
  <<"Dial", "ChainID", "Descriptor", "GasPrice", "GasLimit", "Nonce",
    "SignTx", "Simulate", "Send">>

ApproveTokenSteps ==
  <<"Dial", "ChainID", "TokenInfo", "Simulate", "EstimateGas", "Nonce",
    "Header", "Fee", "SignTx", "Send">>

TransferTokenSteps ==
  <<"Dial", "ChainID", "TokenInfo", "BalanceOf", "Simulate", "EstimateGas",
    "Nonce", "Header", "Fee", "SignTx", "Send">>

TransferNativeSteps ==
  <<"Dial", "ChainID", "NativeTokenInfo", "BalanceAt", "Header", "Fee",
    "Nonce", "SignTx", "Simulate", "Send">>

Program(t) ==
  CASE t = "execute-quote"   -> ExecuteTransactionSteps
    [] t = "approve-token"   -> ApproveTokenSteps
    [] t = "transfer-token"  -> TransferTokenSteps
    [] t = "transfer-native" -> TransferNativeSteps
    [] OTHER -> <<>>

Idle == tool = "none"

\* The call is running and its next step is `name`.
At(name) ==
  /\ result = NoResult
  /\ pc \in 1..Len(Program(tool))
  /\ Program(tool)[pc] = name

\* A handler starts: its argument checks fail with message m, or (m = "")
\* pass and the handler goes on to its first step.
Begin(t, a, m, l) ==
  /\ Idle
  /\ tool' = t
  /\ args' = a
  /\ loc' = IF m = "" THEN l ELSE InitLoc
  /\ trace' = <<[op |-> "Arguments", ok |-> m = ""]>>
  /\ IF m = "" THEN pc' = 1 /\ result' = NoResult
               ELSE pc' = 0 /\ result' = Err(m)
  /\ UNCHANGED <<privateKey, node, sent, httpVars, cacheVars, apiVars, nonceVars>>

\* A step ends having performed the operations es (each [op, ok]) and
\* assigned the locals l: if one of the operations failed the call returns
\* the error result r, otherwise it goes on to the next step, and returns the
\* success result after the last one.
End(es, r, l) ==
  LET ok == \A i \in DOMAIN es : es[i].ok
  IN  /\ trace' = trace \o es
      /\ loc' = l
      /\ pc' = IF ok THEN pc + 1 ELSE pc
      /\ result' = IF ~ok THEN r
                   ELSE IF pc = Len(Program(tool)) THEN Ok ELSE NoResult
      /\ UNCHANGED <<privateKey, tool, args, httpVars, cacheVars, apiVars, nonceVars>>

\* getStringArg-style extraction of a descriptor field: the string, or "" when
\* the field is absent.
StrOf(v) == IF v.t = "string" THEN v.s ELSE <<>>

\* The field is present and is no string.
NotString(v) == v.t \notin {"absent", "string"}

(***************************************************************************)
(* The argument checks of the four handlers: the error message, "" if none.*)
(***************************************************************************)

ExecuteQuoteArgError(a) ==
  IF ~privateKey THEN "no private key loaded"
  ELSE IF a.rpcUrl = "" THEN "RPC URL is required"
  ELSE IF ~a.hasTx THEN "transaction request object is required"
  ELSE ""

ApproveTokenArgError(a) ==
  IF ~privateKey THEN "no private key loaded"
  ELSE IF a.rpcUrl = "" THEN "RPC URL is required"
  ELSE IF a.tokenAddress = <<>> THEN "token address is required"
  ELSE IF a.spenderAddress = <<>> THEN "spender address is required"
  ELSE IF a.amount = <<>> THEN "amount is required"
  ELSE IF ~IsHexAddress(a.tokenAddress) THEN "invalid token address format"
  ELSE IF ~IsHexAddress(a.spenderAddress) THEN "invalid spender address format"
  ELSE IF ~SetString(a.amount, 10).ok THEN "invalid amount format"
  ELSE ""

TransferTokenArgError(a) ==
  IF ~privateKey THEN "no private key loaded"
  ELSE IF a.rpcUrl = "" THEN "RPC URL is required"
  ELSE IF a.tokenAddress = <<>> THEN "token address is required"
  ELSE IF a.to = <<>> THEN "recipient address (to) is required"
  ELSE IF a.amount = <<>> THEN "amount is required"
  ELSE IF ~IsHexAddress(a.tokenAddress) THEN "invalid token address format"
  ELSE IF ~IsHexAddress(a.to) THEN "invalid recipient address format"
  ELSE IF ~SetString(a.amount, 10).ok THEN "invalid amount format"
  ELSE ""

TransferNativeArgError(a) ==
  IF ~privateKey THEN "no private key loaded"
  ELSE IF a.rpcUrl = "" THEN "RPC URL is required"
  ELSE IF a.to = <<>> THEN "recipient address (to) is required"
  ELSE IF a.amount = <<>> THEN "amount is required"
  ELSE IF ~IsHexAddress(a.to) THEN "invalid recipient address format"
  ELSE IF ~SetString(a.amount, 10).ok THEN "invalid amount format"
  ELSE ""

RpcUrls == {"", "https://rpc"}

ExecuteQuoteArgs ==
  { [NoArgs EXCEPT !.rpcUrl = u, !.hasTx = TRUE, !.txRequest = d] :
      u \in RpcUrls, d \in TxRequests }
  \cup { [NoArgs EXCEPT !.rpcUrl = u] : u \in RpcUrls }

ApproveTokenArgs ==
  { [NoArgs EXCEPT !.rpcUrl = u, !.tokenAddress = t, !.spenderAddress = sp,
                   !.amount = am] :
      u \in RpcUrls, t \in {<<>>, BadHex, TokenHex},
      sp \in {<<>>, BadHex, OtherHex}, am \in AmountStrings }

TransferTokenArgs ==
  { [NoArgs EXCEPT !.rpcUrl = u, !.tokenAddress = t, !.to = r, !.amount = am] :
      u \in RpcUrls, t \in {<<>>, BadHex, TokenHex},
      r \in {<<>>, BadHex, ZeroAddress, OtherHex}, am \in AmountStrings }

TransferNativeArgs ==
  { [NoArgs EXCEPT !.rpcUrl = u, !.to = r, !.amount = am] :
      u \in RpcUrls, r \in {<<>>, BadHex, ZeroAddress, OtherHex},
      am \in AmountStrings }

\* The amount a handler has parsed when its argument checks pass.
WithAmount(a) == [InitLoc EXCEPT !.amount = SetString(a.amount, 10).z]

executeQuoteHandler ==
  \E a \in ExecuteQuoteArgs :
    Begin("execute-quote", a, ExecuteQuoteArgError(a), InitLoc)

approveTokenHandler ==
  \E a \in ApproveTokenArgs :
    Begin("approve-token", a, ApproveTokenArgError(a), WithAmount(a))

transferTokenHandler ==
  \E a \in TransferTokenArgs :
    Begin("transfer-token", a, TransferTokenArgError(a), WithAmount(a))

transferNativeHandler ==
  \E a \in TransferNativeArgs :
    Begin("transfer-native", a, TransferNativeArgError(a), WithAmount(a))

(***************************************************************************)
(* The steps.                                                              *)
(***************************************************************************)

One(op, ok) == <<[op |-> op, ok |-> ok]>>

\* ethclient.Dial(rpcUrl)
Dial ==
  /\ At("Dial")
  /\ \E ok \in BOOLEAN, n \in Nodes :
       /\ node' = IF ok THEN n ELSE NoNode
       /\ End(One("Dial", ok), Err("failed to connect to the Ethereum client"), loc)
  /\ UNCHANGED sent

\* client.ChainID(ctx)
ChainID ==
  /\ At("ChainID")
  /\ \E ok \in BOOLEAN :
       End(One("ChainID", ok), Err("failed to get chain ID"),
           IF ok THEN [loc EXCEPT !.chainID = node.chainId] ELSE loc)
  /\ UNCHANGED <<node, sent>>

\* requestChainID as the descriptor gives it: int64(v) of a number, the parse
\* of a string (its result unchecked), nil for a missing field or another type.
RequestChainID(d) ==
  CASE d.chainId.t = "number" -> BigInt(d.chainId.n)
    [] d.chainId.t = "string" ->
         BigInt(IF HasPrefix0x(d.chainId.s)
                THEN SetString(Drop2(d.chainId.s), 16).z
                ELSE SetString(d.chainId.s, 10).z)
    [] OTHER -> NilInt

\* valueInt: 0 for "", "0x" and "0x0", else the parse of the string, its
\* result unchecked.
ValueInt(d) ==
  LET v == StrOf(d.value)
  IN  IF v \in {<<>>, <<"0", "x">>, <<"0", "x", "0">>} THEN 0
      ELSE IF HasPrefix0x(v) THEN SetString(Drop2(v), 16).z
      ELSE SetString(v, 10).z

\* The descriptor's checks without the comparison of the chain ids.
DescriptorErrorNoChainId(d, networkChainID) ==
  IF NotString(d.to) THEN "transaction 'to' must be a string"
  ELSE IF StrOf(d.to) = <<>> THEN "transaction 'to' address is required"
  ELSE IF NotString(d.data) THEN "transaction 'data' must be a string"
  ELSE IF StrOf(d.data) = <<>> THEN "transaction 'data' is required"
  ELSE IF NotString(d.value) THEN "transaction 'value' must be a string"
  ELSE IF NotString(d.from) THEN "transaction 'from' must be a string"
  ELSE IF StrOf(d.from) # <<>> /\ ~EqualFold(StrOf(d.from), WalletHex)
    THEN "transaction 'from' address doesn't match wallet address"
  ELSE ""

\* The checks of the descriptor, in the order of the code: the error message,
\* "" if the descriptor passes.
DescriptorError(d, networkChainID) ==
  IF NotString(d.to) THEN "transaction 'to' must be a string"
  ELSE IF StrOf(d.to) = <<>> THEN "transaction 'to' address is required"
  ELSE IF NotString(d.data) THEN "transaction 'data' must be a string"
  ELSE IF StrOf(d.data) = <<>> THEN "transaction 'data' is required"
  ELSE IF NotString(d.value) THEN "transaction 'value' must be a string"
  ELSE IF NotString(d.from) THEN "transaction 'from' must be a string"
  ELSE IF StrOf(d.from) # <<>> /\ ~EqualFold(StrOf(d.from), WalletHex)
    THEN "transaction 'from' address doesn't match wallet address"
  ELSE IF ~RequestChainID(d).isNil /\ RequestChainID(d).v # networkChainID
    THEN "chain ID in transaction doesn't match network chain ID"
  ELSE ""

\* executeTransactionRequest: the descriptor's checks and conversions, which
\* follow the connection and the chain id query.
Descriptor ==
  /\ At("Descriptor")
  /\ LET d == args.txRequest
         m == DescriptorError(d, loc.chainID)
         c == RequestChainID(d)
     IN  End(One("Descriptor", m = ""), Err(m),
             IF m = ""
             THEN [loc EXCEPT !.requestChainID =
                                 IF c.isNil THEN BigInt(loc.chainID) ELSE c,
                              !.value = ValueInt(d)]
             ELSE loc)
  /\ UNCHANGED <<node, sent>>

\* The descriptor gives a gas price: a non-empty string.
HasGasPrice(d) == StrOf(d.gasPrice) # <<>>

\* executeTransactionRequest: the gas price of the descriptor, or the one the
\* node suggests.
GasPrice ==
  /\ At("GasPrice")
  /\ LET g == StrOf(args.txRequest.gasPrice)
     IN  IF HasGasPrice(args.txRequest)
         THEN End(One("ParseGasPrice", TRUE), NoResult,
                  [loc EXCEPT !.gasPrice =
                     IF HasPrefix0x(g) THEN SetString(Drop2(g), 16).z
                     ELSE SetString(g, 10).z])
         ELSE \E ok \in BOOLEAN, p \in GasPrices :
                End(One("SuggestGasPrice", ok), Err("failed to suggest gas price"),
                    IF ok THEN [loc EXCEPT !.gasPrice = p] ELSE loc)
  /\ UNCHANGED <<node, sent>>

\* The descriptor gives a gas limit: a non-empty string.
HasGasLimit(d) == StrOf(d.gasLimit) # <<>>

\* executeTransactionRequest: decode the call data, then take the gas limit of
\* the descriptor or estimate it and add the buffer.
GasLimit ==
  /\ At("GasLimit")
  /\ LET data == StrOf(args.txRequest.data)
         g    == StrOf(args.txRequest.gasLimit)
         p    == IF HasPrefix0x(g) THEN ParseInt(Drop2(g), 16) ELSE ParseInt(g, 10)
     IN  IF ~HexDecodes(IF HasPrefix0x(data) THEN Drop2(data) ELSE data)
         THEN End(One("DecodeData", FALSE), Err("invalid transaction data"), loc)
         ELSE IF HasGasLimit(args.txRequest)
         THEN End(One("ParseGasLimit", p.ok), Err("invalid gas limit"),
                  IF p.ok THEN [loc EXCEPT !.gasLimit = p.v] ELSE loc)
         ELSE \E ok \in BOOLEAN, est \in Estimates :
                End(One("EstimateGas", ok), Err("failed to estimate gas"),
                    IF ok THEN [loc EXCEPT !.estimate = est,
                                           !.gasLimit = AddGasBuffer(est)]
                    ELSE loc)
  /\ UNCHANGED <<node, sent>>

\* getTokenInfo: symbol() and decimals() of the token; the handlers replace a
\* failure by defaults and go on.
TokenInfo ==
  /\ At("TokenInfo")
  /\ \E symbolOk, decimalsOk \in BOOLEAN :
       trace' = trace \o
                (IF symbolOk
                 THEN One("CallContract:symbol", TRUE)
                      \o One("CallContract:decimals", decimalsOk)
                 ELSE One("CallContract:symbol", FALSE))
  /\ pc' = pc + 1
  /\ UNCHANGED <<privateKey, tool, args, node, loc, sent, result, httpVars, cacheVars, apiVars, nonceVars>>

\* getNativeTokenInfo(chainID): a lookup in the chain directory of the REST
\* API; transferNativeHandler replaces a failure by defaults and goes on.
NativeTokenInfo ==
  /\ At("NativeTokenInfo")
  /\ \E ok \in BOOLEAN : trace' = trace \o One("getNativeTokenInfo", ok)
  /\ pc' = pc + 1
  /\ UNCHANGED <<privateKey, tool, args, node, loc, sent, result, httpVars, cacheVars, apiVars, nonceVars>>

\* balanceOf(wallet) without the check of the balance against the amount.
BalanceOfUnchecked ==
  /\ At("BalanceOf")
  /\ \E ok \in BOOLEAN, b \in TokenBalances :
       End(One("CallContract:balanceOf", ok), Err("failed to call balanceOf"),
           IF ok THEN [loc EXCEPT !.balance = b] ELSE loc)
  /\ UNCHANGED <<node, sent>>

\* transferTokenHandler: balanceOf(wallet), and the check that the balance
\* covers the amount.
BalanceOf ==
  /\ At("BalanceOf")
  /\ \E ok \in BOOLEAN, b \in TokenBalances :
       IF ~ok
       THEN End(One("CallContract:balanceOf", FALSE),
                Err("failed to call balanceOf"), loc)
       ELSE End(One("CallContract:balanceOf", TRUE)
                  \o One("BalanceCheck", ~(b < loc.amount)),
                ErrHaveNeed("insufficient token balance", b, loc.amount),
                [loc EXCEPT !.balance = b])
  /\ UNCHANGED <<node, sent>>

\* Standard gas for ETH transfer
NativeGasLimit == 21000

\* transferNativeHandler: the balance of the wallet, and the fixed gas limit.
BalanceAt ==
  /\ At("BalanceAt")
  /\ \E ok \in BOOLEAN, b \in NativeBalances :
       End(One("BalanceAt", ok), Err("failed to get wallet balance"),
           IF ok THEN [loc EXCEPT !.balance = b, !.gasLimit = NativeGasLimit]
           ELSE loc)
  /\ UNCHANGED <<node, sent>>

SimulateError(t) ==
  CASE t = "approve-token" -> "approval would fail"
    [] t = "execute-quote" -> "transaction would fail"
    [] OTHER -> "transfer would fail"

\* A simulation whose revert is ignored.
SimulateIgnored ==
  /\ At("Simulate")
  /\ \E ok \in BOOLEAN : trace' = trace \o One("CallContract:simulate", ok)
  /\ pc' = pc + 1
  /\ UNCHANGED <<privateKey, tool, args, node, loc, sent, result, httpVars, cacheVars, apiVars, nonceVars>>

\* client.CallContract(ctx, msg, nil) with the transaction's parameters.
Simulate ==
  /\ At("Simulate")
  /\ \E ok \in BOOLEAN :
       End(One("CallContract:simulate", ok), Err(SimulateError(tool)), loc)
  /\ UNCHANGED <<node, sent>>

\* approveTokenHandler, transferTokenHandler: client.EstimateGas and the buffer.
EstimateGas ==
  /\ At("EstimateGas")
  /\ \E ok \in BOOLEAN, est \in Estimates :
       End(One("EstimateGas", ok), Err("failed to estimate gas"),
           IF ok THEN [loc EXCEPT !.estimate = est, !.gasLimit = AddGasBuffer(est)]
           ELSE loc)
  /\ UNCHANGED <<node, sent>>

\* client.PendingNonceAt(ctx, walletAddress)
Nonce ==
  /\ At("Nonce")
  /\ \E ok \in BOOLEAN, n \in Nonces :
       End(One("PendingNonceAt", ok), Err("failed to get nonce"),
           IF ok THEN [loc EXCEPT !.nonce = n] ELSE loc)
  /\ UNCHANGED <<node, sent>>

\* client.HeaderByNumber(ctx, nil)
Header ==
  /\ At("Header")
  /\ \E ok \in BOOLEAN :
       End(One("HeaderByNumber", ok), Err("failed to get latest block header"),
           IF ok THEN [loc EXCEPT !.baseFee = node.baseFee] ELSE loc)
  /\ UNCHANGED <<node, sent>>

\* The fee per gas the handler has resolved: the max fee on a network with a
\* base fee, the gas price otherwise.
FeePerGas(l) == IF l.baseFee # 0 THEN l.maxFeePerGas ELSE l.gasPrice

\* A balance check that forgets the gas.
InsufficientBalanceNoGas(l) == l.balance < l.amount

\* transferNativeHandler: balance < amount + gasLimit * fee
InsufficientBalance(l) == l.balance < l.amount + l.gasLimit * FeePerGas(l)

\* approveTokenHandler, transferTokenHandler, transferNativeHandler: with a
\* base fee in the header, the suggested tip and the max fee 2 * baseFee + tip;
\* without, the suggested gas price.  transferNativeHandler then checks that
\* the balance covers the amount and the gas.
Fee ==
  /\ At("Fee")
  /\ \E ok \in BOOLEAN, tip \in TipCaps, p \in GasPrices :
       LET l == IF loc.baseFee # 0
                THEN [loc EXCEPT !.gasTipCap = tip,
                                 !.maxFeePerGas = loc.baseFee * 2 + tip]
                ELSE [loc EXCEPT !.gasPrice = p]
           q == IF loc.baseFee # 0 THEN "SuggestGasTipCap" ELSE "SuggestGasPrice"
       IN  IF ~ok
           THEN End(One(q, FALSE),
                    Err(IF loc.baseFee # 0 THEN "failed to suggest gas tip cap"
                        ELSE "failed to suggest gas price"), loc)
           ELSE IF tool = "transfer-native"
           THEN End(One(q, TRUE) \o One("BalanceCheck", ~InsufficientBalance(l)),
                    ErrHaveNeed("insufficient balance", l.balance,
                                l.amount + l.gasLimit * FeePerGas(l)), l)
           ELSE End(One(q, TRUE), NoResult, l)
  /\ UNCHANGED <<node, sent>>

\* The transaction executeTransactionRequest builds: types.NewTransaction, a
\* legacy transaction, signed by the EIP-155 signer of requestChainID.
ExecuteTx(a, l) ==
  [NoTx EXCEPT !.type = "legacy", !.nonce = l.nonce, !.gasPrice = l.gasPrice,
               !.gas = l.gasLimit, !.to = HexToAddress(StrOf(a.txRequest.to)),
               !.value = l.value, !.signer = l.requestChainID.v]

\* The transaction the token and native handlers build: a DynamicFeeTx when
\* head.BaseFee is not nil, a LegacyTx otherwise, signed by the latest signer
\* of the node's chain id.
HandlerTx(t, a, l) ==
  LET to  == HexToAddress(IF t = "transfer-native" THEN a.to ELSE a.tokenAddress)
      val == IF t = "transfer-native" THEN l.amount ELSE 0
  IN  IF l.baseFee # 0
      THEN [NoTx EXCEPT !.type = "dynamic", !.chainId = l.chainID,
                        !.nonce = l.nonce, !.gasTipCap = l.gasTipCap,
                        !.gasFeeCap = l.maxFeePerGas, !.gas = l.gasLimit,
                        !.to = to, !.value = val, !.signer = l.chainID]
      ELSE [NoTx EXCEPT !.type = "legacy", !.nonce = l.nonce,
                        !.gasPrice = l.gasPrice, !.gas = l.gasLimit,
                        !.to = to, !.value = val, !.signer = l.chainID]

BuildTx(t, a, l) ==
  IF t = "execute-quote" THEN ExecuteTx(a, l) ELSE HandlerTx(t, a, l)

\* types.SignTx(tx, signer, s.privateKey)
SignTx ==
  /\ At("SignTx")
  /\ \E ok \in BOOLEAN :
       End(One("SignTx", ok), Err("failed to sign transaction"),
           IF ok THEN [loc EXCEPT !.tx = BuildTx(tool, args, loc)] ELSE loc)
  /\ UNCHANGED <<node, sent>>

\* A broadcast that is tried once more when it fails.
SendRetrying ==
  /\ At("Send")
  /\ \E ok \in BOOLEAN :
       IF ok \/ Len(sent) >= 1
       THEN End(One("SendTransaction", ok), Err("failed to send transaction"), loc)
       ELSE /\ trace' = trace \o One("SendTransaction", FALSE)
            /\ UNCHANGED <<privateKey, tool, args, pc, loc, result,
                           httpVars, cacheVars, apiVars, nonceVars>>
  /\ sent' = Append(sent, loc.tx)
  /\ UNCHANGED node

\* client.SendTransaction(ctx, signedTx), and the report.
Send ==
  /\ At("Send")
  /\ \E ok \in BOOLEAN :
       End(One("SendTransaction", ok), Err("failed to send transaction"), loc)
  /\ sent' = Append(sent, loc.tx)
  /\ UNCHANGED node

\* The result goes back to the caller; the server serves the next call.
Return ==
  /\ ~Idle
  /\ result # NoResult
  /\ tool' = "none"
  /\ args' = NoArgs
  /\ pc' = 0
  /\ node' = NoNode
  /\ loc' = InitLoc
  /\ trace' = <<>>
  /\ sent' = <<>>
  /\ result' = NoResult
  /\ UNCHANGED <<privateKey, httpVars, cacheVars, apiVars, nonceVars>>

InitTx ==
  /\ privateKey \in BOOLEAN
  /\ tool = "none"
  /\ args = NoArgs
  /\ pc = 0
  /\ node = NoNode
  /\ loc = InitLoc
  /\ trace = <<>>
  /\ sent = <<>>
  /\ result = NoResult

NextTx ==
  \/ executeQuoteHandler
  \/ approveTokenHandler
  \/ transferTokenHandler
  \/ transferNativeHandler
  \/ Dial
  \/ ChainID
  \/ Descriptor
  \/ GasPrice
  \/ GasLimit
  \/ TokenInfo
  \/ NativeTokenInfo
  \/ BalanceOf
  \/ BalanceAt
  \/ Simulate
  \/ EstimateGas
  \/ Nonce
  \/ Header
  \/ Fee
  \/ SignTx
  \/ Send
  \/ Return

(***************************************************************************)
(* The HTTP client: a token bucket shared by every caller, and Get/Post,   *)
(* which retry through it.  The limiter's clock counts ticks; backoff      *)
(* delays are in milliseconds.                                             *)
(***************************************************************************)

\* The goroutines that call Get/Post.
Callers == {"a", "b"}

\* newRateLimiter(maxTokens, period): the capacity and the period, in ticks,
\* the model's limiter is built with.
LimiterTokens == 2
LimiterPeriod == 5

\* The clock stops at MaxTime.
MaxTime == 4

maxTokens == LimiterTokens

\* refillRate: period / time.Duration(maxTokens)
refillRate == LimiterPeriod \div LimiterTokens

maxRetries == 3

\* Milliseconds.
baseRetryDelay == 500
maxRetryDelay == 30000

\* Percent.
retryJitterRatio == 30

Min(a, b) == IF a < b THEN a ELSE b

\* Errors: the nil error, and what doRequest, acquire and the context return.
NilErr == [kind |-> "nil", code |-> 0, retryAfter |-> 0, wrap |-> ""]
HttpErr(k, c, r) == [kind |-> k, code |-> c, retryAfter |-> r, wrap |-> ""]
CtxErr == HttpErr("context", 0, 0)
\* fmt.Errorf("rate limiter: %w", err)
Wrap(e) == [e EXCEPT !.wrap = "rate limiter"]

\* What Get/Post returns; the body of the response to the call's n-th attempt
\* is written n, the nil body 0.
NoRet == [st |-> "none", err |-> NilErr, body |-> 0]
RetOk(b) == [st |-> "ok", err |-> NilErr, body |-> b]
RetErr(e) == [st |-> "err", err |-> e, body |-> 0]

\* The Retry-After headers a 429 response may carry (empty if it has none).
RetryAfterHeaders == {<<>>, <<"7">>, <<"z">>}

\* parseRetryAfter, in milliseconds, on headers that are not HTTP dates.
parseRetryAfter(header) ==
  IF header = <<>> THEN baseRetryDelay
  ELSE LET a == ParseInt(header, 10)
       IN  IF a.ok THEN a.v * 1000 ELSE baseRetryDelay

\* What may become of one doRequest: the request cannot be built, client.Do
\* fails, the body cannot be read, or a response with a status arrives.
Statuses == {200, 304, 404, 429, 500}

Outcomes ==
  [k : {"createError", "doError", "readError"}, status : {0}, header : {<<>>}]
    \cup [k : {"response"}, status : Statuses \ {429}, header : {<<>>}]
    \cup [k : {"response"}, status : {429}, header : RetryAfterHeaders]

\* The callers whose requests may meet every outcome; the requests of the
\* others meet the outcomes that end the call at once.
Retrying == {"a"}

OutcomesOf(c) ==
  IF c \in Retrying THEN Outcomes
  ELSE {o \in Outcomes : o.k = "createError" \/ o.status \in {200, 404}}

\* doRequest on the outcome o: whether client.Do was invoked, the error and
\* shouldRetry.
doRequest(o) ==
  CASE o.k = "createError" ->
         [sent |-> FALSE, err |-> HttpErr("create", 0, 0), retry |-> FALSE]
    [] o.k = "doError" ->
         [sent |-> TRUE, err |-> HttpErr("network", 0, 0), retry |-> TRUE]
    [] o.k = "readError" ->
         [sent |-> TRUE, err |-> HttpErr("read", 0, 0), retry |-> TRUE]
    [] OTHER ->
         IF o.status = 429
           THEN [sent |-> TRUE,
                 err |-> HttpErr("rateLimited", 429, parseRetryAfter(o.header)),
                 retry |-> TRUE]
         ELSE IF o.status >= 500
           THEN [sent |-> TRUE, err |-> HttpErr("http", o.status, 0), retry |-> TRUE]
         ELSE IF o.status >= 400
           THEN [sent |-> TRUE, err |-> HttpErr("http", o.status, 0), retry |-> FALSE]
         ELSE [sent |-> TRUE, err |-> NilErr, retry |-> FALSE]

\* 100 * (2 * rand.Float64() - 1), rand.Float64() being in [0, 1).
Jitters == {-100, 0, 99}

\* 1 << n
RECURSIVE Shl(_)
Shl(n) == IF n = 0 THEN 1 ELSE 2 * Shl(n - 1)

\* A backoff that does not grow with the attempt.
calculateBackoffFlat(n, j) ==
  LET d == baseRetryDelay
      m == (d * retryJitterRatio * (IF j < 0 THEN 0 - j ELSE j)) \div 10000
  IN  IF j < 0 THEN d - m ELSE d + m

\* calculateBackoff(attempt) with the random factor j / 100; the conversion
\* of the jitter to a Duration truncates toward zero.
calculateBackoff(n, j) ==
  LET d0 == baseRetryDelay * Shl(n)
      d  == IF d0 > maxRetryDelay THEN maxRetryDelay ELSE d0
      m  == (d * retryJitterRatio * (IF j < 0 THEN 0 - j ELSE j)) \div 10000
  IN  IF j < 0 THEN d - m ELSE d + m

\* The entries of hlog; a doRequest entry tells whether client.Do was invoked
\* and the status of the response (0 without a response).
Admitted == [e |-> "acquire", ok |-> TRUE, status |-> 0]
Refused  == [e |-> "acquire", ok |-> FALSE, status |-> 0]
Request(didSend, status) == [e |-> "doRequest", ok |-> didSend, status |-> status]
Slept    == [e |-> "backoff", ok |-> TRUE, status |-> 0]

\* The count of admissions stops at a value it cannot reach while the clock
\* runs to MaxTime.
AdmittedCap == maxTokens + MaxTime \div refillRate + 1

InitHttp ==
  /\ now = 0
  /\ admitted = 0
  /\ tokens = maxTokens
  /\ lastRefill = 0
  /\ mu = "free"
  /\ hpc = [c \in Callers |-> "idle"]
  /\ attempt = [c \in Callers |-> 0]
  /\ ctxDone = [c \in Callers |-> FALSE]
  /\ wakeAt = [c \in Callers |-> 0]
  /\ acquired = [c \in Callers |-> NilErr]
  /\ lastErr = [c \in Callers |-> NilErr]
  /\ delay = [c \in Callers |-> 0]
  /\ ret = [c \in Callers |-> NoRet]
  /\ hlog = [c \in Callers |-> <<>>]

\* Get or Post: doWithRetry enters its loop and calls acquire.
Call(c) ==
  /\ hpc[c] = "idle"
  /\ hpc' = [hpc EXCEPT ![c] = "lock"]
  /\ attempt' = [attempt EXCEPT ![c] = 0]
  /\ UNCHANGED <<now, tokens, lastRefill, mu, ctxDone, wakeAt, acquired,
                 lastErr, delay, ret, hlog, admitted, txVars, cacheVars, apiVars, nonceVars>>

\* The caller's context is cancelled while the call runs.
Cancel(c) ==
  /\ hpc[c] \notin {"idle", "done"}
  /\ ~ctxDone[c]
  /\ ctxDone' = [ctxDone EXCEPT ![c] = TRUE]
  /\ UNCHANGED <<now, tokens, lastRefill, mu, hpc, attempt, wakeAt, acquired,
                 lastErr, delay, ret, hlog, admitted, txVars, cacheVars, apiVars, nonceVars>>

\* Time passes.
Tick ==
  /\ now < MaxTime
  /\ now' = now + 1
  /\ UNCHANGED <<tokens, lastRefill, mu, hpc, attempt, ctxDone, wakeAt,
                 acquired, lastErr, delay, ret, hlog, admitted, txVars, cacheVars, apiVars, nonceVars>>

\* acquire, from r.mu.Lock() to the return with a token or to the select:
\* the caller refills the bucket, and takes a token or starts to wait for
\* one, holding the mutex.
acquire(c) ==
  /\ hpc[c] = "lock"
  /\ mu = "free"
  /\ LET tokensToAdd == (now - lastRefill) \div refillRate
         refilled == IF tokensToAdd > 0
                     THEN Min(tokens + tokensToAdd, maxTokens) ELSE tokens
         refillAt == IF tokensToAdd > 0 THEN now ELSE lastRefill
         waitTime == refillRate - ((now - refillAt) % refillRate)
     IN  /\ lastRefill' = refillAt
         /\ IF refilled > 0
            THEN /\ tokens' = refilled - 1
                 /\ acquired' = [acquired EXCEPT ![c] = NilErr]
                 /\ hpc' = [hpc EXCEPT ![c] = "acquired"]
                 /\ hlog' = [hlog EXCEPT ![c] = Append(@, Admitted)]
                 /\ admitted' = Min(admitted + 1, AdmittedCap)
                 /\ UNCHANGED <<mu, wakeAt>>
            ELSE /\ tokens' = refilled
                 /\ mu' = c
                 /\ wakeAt' = [wakeAt EXCEPT ![c] = now + waitTime]
                 /\ hpc' = [hpc EXCEPT ![c] = "wait"]
                 /\ UNCHANGED <<acquired, hlog, admitted>>
  /\ UNCHANGED <<now, attempt, ctxDone, lastErr, delay, ret, txVars, cacheVars, apiVars, nonceVars>>

\* A wait that does not wait: the timer's case is taken at once.
acquireTimerEarly(c) ==
  /\ hpc[c] = "wait"
  /\ ~ctxDone[c]
  /\ tokens' = 0
  /\ lastRefill' = now
  /\ mu' = "free"
  /\ acquired' = [acquired EXCEPT ![c] = NilErr]
  /\ hpc' = [hpc EXCEPT ![c] = "acquired"]
  /\ hlog' = [hlog EXCEPT ![c] = Append(@, Admitted)]
  /\ admitted' = Min(admitted + 1, AdmittedCap)
  /\ UNCHANGED <<now, attempt, ctxDone, wakeAt, lastErr, delay, ret, txVars, cacheVars, apiVars, nonceVars>>

\* A wait that ends without unlocking the mutex.
acquireTimerKeepsLock(c) ==
  /\ hpc[c] = "wait"
  /\ now >= wakeAt[c]
  /\ ~ctxDone[c]
  /\ tokens' = 0
  /\ lastRefill' = now
  /\ acquired' = [acquired EXCEPT ![c] = NilErr]
  /\ hpc' = [hpc EXCEPT ![c] = "acquired"]
  /\ hlog' = [hlog EXCEPT ![c] = Append(@, Admitted)]
  /\ admitted' = Min(admitted + 1, AdmittedCap)
  /\ UNCHANGED <<now, mu, attempt, ctxDone, wakeAt, lastErr, delay, ret, txVars, cacheVars, apiVars, nonceVars>>

\* A timer case that takes a token out of the bucket it found empty.
acquireTimerTakesToken(c) ==
  /\ hpc[c] = "wait"
  /\ now >= wakeAt[c]
  /\ ~ctxDone[c]
  /\ tokens' = tokens - 1
  /\ lastRefill' = now
  /\ mu' = "free"
  /\ acquired' = [acquired EXCEPT ![c] = NilErr]
  /\ hpc' = [hpc EXCEPT ![c] = "acquired"]
  /\ hlog' = [hlog EXCEPT ![c] = Append(@, Admitted)]
  /\ admitted' = Min(admitted + 1, AdmittedCap)
  /\ UNCHANGED <<now, attempt, ctxDone, wakeAt, lastErr, delay, ret, txVars, cacheVars, apiVars, nonceVars>>

\* acquire, case <-time.After(waitTime).  The select takes the case that
\* becomes ready first: the timer's, if the context is not yet cancelled when
\* the timer fires.
acquireTimer(c) ==
  /\ hpc[c] = "wait"
  /\ now >= wakeAt[c]
  /\ ~ctxDone[c]
  /\ tokens' = 0
  /\ lastRefill' = now
  /\ mu' = "free"
  /\ acquired' = [acquired EXCEPT ![c] = NilErr]
  /\ hpc' = [hpc EXCEPT ![c] = "acquired"]
  /\ hlog' = [hlog EXCEPT ![c] = Append(@, Admitted)]
  /\ admitted' = Min(admitted + 1, AdmittedCap)
  /\ UNCHANGED <<now, attempt, ctxDone, wakeAt, lastErr, delay, ret, txVars, cacheVars, apiVars, nonceVars>>

\* acquire, case <-ctx.Done()
acquireCancelled(c) ==
  /\ hpc[c] = "wait"
  /\ ctxDone[c]
  /\ mu' = "free"
  /\ acquired' = [acquired EXCEPT ![c] = CtxErr]
  /\ hpc' = [hpc EXCEPT ![c] = "acquired"]
  /\ hlog' = [hlog EXCEPT ![c] = Append(@, Refused)]
  /\ UNCHANGED <<now, tokens, lastRefill, attempt, ctxDone, wakeAt, lastErr,
                 delay, ret, admitted, txVars, cacheVars, apiVars, nonceVars>>

\* doWithRetry, acquire has returned an error.
acquireFailed(c) ==
  /\ hpc[c] = "acquired"
  /\ acquired[c] # NilErr
  /\ ret' = [ret EXCEPT ![c] = RetErr(Wrap(acquired[c]))]
  /\ hpc' = [hpc EXCEPT ![c] = "done"]
  /\ UNCHANGED <<now, tokens, lastRefill, mu, attempt, ctxDone, wakeAt,
                 acquired, lastErr, delay, hlog, admitted, txVars, cacheVars, apiVars, nonceVars>>

\* A loop that allows one retry too many.
BreakLoopLate(shouldRetry, n) == ~shouldRetry \/ n = maxRetries + 1

\* A loop that retries whatever doRequest says of the error.
BreakLoopAtLimitOnly(shouldRetry, n) == n = maxRetries

\* A loop that gives up after the first retry.
BreakLoopAfterOneRetry(shouldRetry, n) == ~shouldRetry \/ n >= 1

\* if !shouldRetry || attempt == maxRetries { break }
BreakLoop(shouldRetry, n) == ~shouldRetry \/ n = maxRetries

\* The body of doWithRetry's loop after acquire: doRequest, and the return,
\* the break or the start of the backoff.  client.Do fails under a context
\* that is already cancelled.
attemptRequest(c) ==
  /\ hpc[c] = "acquired"
  /\ acquired[c] = NilErr
  /\ \E o \in OutcomesOf(c) :
       LET r == doRequest(o)
       IN  /\ ctxDone[c] => o.k \in {"createError", "doError"}
           /\ hlog' = [hlog EXCEPT ![c] = Append(@, Request(r.sent, o.status))]
           /\ IF r.err = NilErr
              THEN /\ ret' = [ret EXCEPT ![c] = RetOk(attempt[c] + 1)]
                   /\ hpc' = [hpc EXCEPT ![c] = "done"]
                   /\ UNCHANGED <<lastErr, delay>>
              ELSE /\ lastErr' = [lastErr EXCEPT ![c] = r.err]
                   /\ IF BreakLoop(r.retry, attempt[c])
                      THEN /\ ret' = [ret EXCEPT ![c] = RetErr(r.err)]
                           /\ hpc' = [hpc EXCEPT ![c] = "done"]
                           /\ UNCHANGED delay
                      ELSE /\ \E j \in Jitters :
                                delay' = [delay EXCEPT ![c] =
                                            calculateBackoff(attempt[c], j)]
                           /\ hpc' = [hpc EXCEPT ![c] = "backoff"]
                           /\ UNCHANGED ret
  /\ UNCHANGED <<now, tokens, lastRefill, mu, attempt, ctxDone, wakeAt,
                 acquired, admitted, txVars, cacheVars, apiVars, nonceVars>>

\* A retry that goes to doRequest without calling acquire.
backoffTimerUnlimited(c) ==
  /\ hpc[c] = "backoff"
  /\ attempt' = [attempt EXCEPT ![c] = @ + 1]
  /\ hpc' = [hpc EXCEPT ![c] = "acquired"]
  /\ hlog' = [hlog EXCEPT ![c] = Append(@, Slept)]
  /\ UNCHANGED <<now, tokens, lastRefill, mu, ctxDone, wakeAt, acquired,
                 lastErr, delay, ret, admitted, txVars, cacheVars, apiVars, nonceVars>>

\* A backoff that may end by its timer although the context is cancelled.
backoffTimerRacy(c) ==
  /\ hpc[c] = "backoff"
  /\ attempt' = [attempt EXCEPT ![c] = @ + 1]
  /\ hpc' = [hpc EXCEPT ![c] = "lock"]
  /\ hlog' = [hlog EXCEPT ![c] = Append(@, Slept)]
  /\ UNCHANGED <<now, tokens, lastRefill, mu, ctxDone, wakeAt, acquired,
                 lastErr, delay, ret, admitted, txVars, cacheVars, apiVars, nonceVars>>

\* doWithRetry, case <-time.After(delay): the next iteration.  As in acquire,
\* the timer's case is taken if the context is not yet cancelled when the
\* timer fires.
backoffTimer(c) ==
  /\ hpc[c] = "backoff"
  /\ ~ctxDone[c]
  /\ attempt' = [attempt EXCEPT ![c] = @ + 1]
  /\ hpc' = [hpc EXCEPT ![c] = "lock"]
  /\ hlog' = [hlog EXCEPT ![c] = Append(@, Slept)]
  /\ UNCHANGED <<now, tokens, lastRefill, mu, ctxDone, wakeAt, acquired,
                 lastErr, delay, ret, admitted, txVars, cacheVars, apiVars, nonceVars>>

\* doWithRetry, case <-ctx.Done() during the backoff.
backoffCancelled(c) ==
  /\ hpc[c] = "backoff"
  /\ ctxDone[c]
  /\ ret' = [ret EXCEPT ![c] = RetErr(CtxErr)]
  /\ hpc' = [hpc EXCEPT ![c] = "done"]
  /\ UNCHANGED <<now, tokens, lastRefill, mu, attempt, ctxDone, wakeAt,
                 acquired, lastErr, delay, hlog, admitted, txVars, cacheVars, apiVars, nonceVars>>

\* The caller has its result and is ready for its next call.
Returned(c) ==
  /\ hpc[c] = "done"
  /\ hpc' = [hpc EXCEPT ![c] = "idle"]
  /\ attempt' = [attempt EXCEPT ![c] = 0]
  /\ ctxDone' = [ctxDone EXCEPT ![c] = FALSE]
  /\ wakeAt' = [wakeAt EXCEPT ![c] = 0]
  /\ acquired' = [acquired EXCEPT ![c] = NilErr]
  /\ lastErr' = [lastErr EXCEPT ![c] = NilErr]
  /\ delay' = [delay EXCEPT ![c] = 0]
  /\ ret' = [ret EXCEPT ![c] = NoRet]
  /\ hlog' = [hlog EXCEPT ![c] = <<>>]
  /\ UNCHANGED <<now, tokens, lastRefill, mu, admitted, txVars, cacheVars, apiVars, nonceVars>>

\* The limiter seen alone: acquire has returned to its caller, and what the
\* caller does with the result is outside the limiter.
Proceed(c) ==
  /\ hpc[c] = "acquired"
  /\ hpc' = [hpc EXCEPT ![c] = "idle"]
  /\ ctxDone' = [ctxDone EXCEPT ![c] = FALSE]
  /\ wakeAt' = [wakeAt EXCEPT ![c] = 0]
  /\ acquired' = [acquired EXCEPT ![c] = NilErr]
  /\ hlog' = [hlog EXCEPT ![c] = <<>>]
  /\ UNCHANGED <<now, tokens, lastRefill, mu, attempt, lastErr, delay, ret,
                 admitted, txVars, cacheVars, apiVars, nonceVars>>

\* Time passes beyond MaxTime.  The limiter reads the clock only through
\* now - lastRefill and the timers through now >= wakeAt, so the clock stays
\* where it is and the instants move back; an elapsed time of maxTokens
\* refill intervals or more fills the bucket whatever it is, and stays.
Elapse ==
  /\ now = MaxTime
  /\ lastRefill' = IF now - lastRefill >= maxTokens * refillRate
                   THEN lastRefill ELSE lastRefill - 1
  /\ wakeAt' = [c \in Callers |-> IF wakeAt[c] > 0 THEN wakeAt[c] - 1 ELSE 0]
  /\ UNCHANGED <<now, tokens, mu, hpc, attempt, ctxDone, acquired, lastErr,
                 delay, ret, hlog, admitted, txVars, cacheVars, apiVars, nonceVars>>

NextHttp ==
  \/ \E c \in Retrying : Call(c)
  \/ \E c \in Retrying : Cancel(c)
  \/ Tick
  \/ \E c \in Retrying : acquire(c)
  \/ \E c \in Retrying : acquireTimer(c)
  \/ \E c \in Retrying : acquireCancelled(c)
  \/ \E c \in Retrying : acquireFailed(c)
  \/ \E c \in Retrying : attemptRequest(c)
  \/ \E c \in Retrying : backoffTimer(c)
  \/ \E c \in Retrying : backoffCancelled(c)
  \/ \E c \in Retrying : Returned(c)

(***************************************************************************)
(* The chain cache: chainsCache and chainsCacheInitialized under           *)
(* chainsCacheMu, read by the lookups and replaced by refreshChainsCache.  *)
(* A directory is known by its version; version v lists the chains 1..v.   *)
(* chainsCache.Chains is a slice: its assignment copies the array pointer  *)
(* and the length, one after the other.                                    *)
(***************************************************************************)

\* The goroutines that serve tool calls.
Goroutines == {"g1", "g2"}

\* The versions the upstream directory goes through.
MaxVersions == 2

ChainIds == 1..MaxVersions

\* The zero value of ChainData.
EmptyChains == [data |-> 0, len |-> 0]

\* json.Unmarshal of the body of version v.
ChainsOf(v) == [data |-> v, len |-> v]

\* What a goroutine reads of the cache.
Observed == [init |-> chainsCacheInitialized, cache |-> chainsCache]

NoObserved == [init |-> FALSE, cache |-> EmptyChains]

NoLookup ==
  [fn |-> "none", chain |-> 0, initialized |-> FALSE,
   chainData |-> EmptyChains, seen |-> NoObserved, out |-> "none"]

InitCache ==
  /\ chainsCache = EmptyChains
  /\ chainsCacheInitialized = FALSE
  /\ chainsCacheMu = [w |-> "none", r |-> {}]
  /\ directory = 1
  /\ cpc = [g \in Goroutines |-> "idle"]
  /\ cloc = [g \in Goroutines |-> NoLookup]

\* The upstream directory gets a chain more.
DirectoryChange ==
  /\ directory < MaxVersions
  /\ directory' = directory + 1
  /\ UNCHANGED <<chainsCache, chainsCacheInitialized, chainsCacheMu, cpc, cloc,
                 txVars, httpVars, apiVars, nonceVars>>

\* resolveRpcUrl(ctx, chain, "", apiKey) with a chain: up to the first RLock.
resolveRpcUrl(g) ==
  /\ cpc[g] = "idle"
  /\ \E chain \in ChainIds :
       cloc' = [cloc EXCEPT ![g] = [NoLookup EXCEPT !.fn = "resolveRpcUrl",
                                                   !.chain = chain]]
  /\ cpc' = [cpc EXCEPT ![g] = "RLockFlag"]
  /\ UNCHANGED <<chainsCache, chainsCacheInitialized, chainsCacheMu, directory,
                 txVars, httpVars, apiVars, nonceVars>>

\* getChainsHandler, up to the first RLock.  chainTypes is empty (chain 0) or
\* names a type that only the key of one chain of the directory contains.
getChainsHandler(g) ==
  /\ cpc[g] = "idle"
  /\ \E chain \in {0} \cup ChainIds :
       cloc' = [cloc EXCEPT ![g] = [NoLookup EXCEPT !.fn = "getChainsHandler",
                                                   !.chain = chain]]
  /\ cpc' = [cpc EXCEPT ![g] = "RLockFlag"]
  /\ UNCHANGED <<chainsCache, chainsCacheInitialized, chainsCacheMu, directory,
                 txVars, httpVars, apiVars, nonceVars>>

\* An RLock that does not wait for the writer to unlock.
RLockUnguarded(g) ==
  /\ cpc[g] \in {"RLockFlag", "RLockSearch"}
  /\ chainsCacheMu' = [chainsCacheMu EXCEPT !.r = @ \cup {g}]
  /\ cpc' = [cpc EXCEPT ![g] = IF cpc[g] = "RLockFlag" THEN "flag" ELSE "search"]
  /\ UNCHANGED <<chainsCache, chainsCacheInitialized, directory, cloc,
                 txVars, httpVars, apiVars, nonceVars>>

\* chainsCacheMu.RLock()
RLock(g) ==
  /\ cpc[g] \in {"RLockFlag", "RLockSearch"}
  /\ chainsCacheMu.w = "none"
  /\ chainsCacheMu' = [chainsCacheMu EXCEPT !.r = @ \cup {g}]
  /\ cpc' = [cpc EXCEPT ![g] = IF cpc[g] = "RLockFlag" THEN "flag" ELSE "search"]
  /\ UNCHANGED <<chainsCache, chainsCacheInitialized, directory, cloc,
                 txVars, httpVars, apiVars, nonceVars>>

\* initialized := chainsCacheInitialized; chainsCacheMu.RUnlock()
readInitialized(g) ==
  /\ cpc[g] = "flag"
  /\ cloc' = [cloc EXCEPT ![g].initialized = chainsCacheInitialized,
                          ![g].seen = Observed]
  /\ chainsCacheMu' = [chainsCacheMu EXCEPT !.r = @ \ {g}]
  /\ cpc' = [cpc EXCEPT ![g] = IF chainsCacheInitialized THEN "RLockSearch"
                                ELSE "Get"]
  /\ UNCHANGED <<chainsCache, chainsCacheInitialized, directory, txVars, httpVars, apiVars, nonceVars>>

\* A refresh that empties the cache when it fails.
refreshChainsCacheClearing(g) ==
  /\ cpc[g] = "Get"
  /\ \E ok \in BOOLEAN :
       IF ok
       THEN /\ cloc' = [cloc EXCEPT ![g].chainData = ChainsOf(directory)]
            /\ cpc' = [cpc EXCEPT ![g] = "Lock"]
            /\ UNCHANGED <<chainsCache, chainsCacheInitialized>>
       ELSE /\ cloc' = [cloc EXCEPT ![g].out = "error"]
            /\ cpc' = [cpc EXCEPT ![g] = "done"]
            /\ chainsCache' = EmptyChains
            /\ chainsCacheInitialized' = FALSE
  /\ UNCHANGED <<chainsCacheMu, directory, txVars, httpVars, apiVars, nonceVars>>

\* refreshChainsCache, s.httpClient.Get and json.Unmarshal: either fails and
\* the lookup returns the error, or chainData is the directory of the moment.
refreshChainsCache(g) ==
  /\ cpc[g] = "Get"
  /\ \E ok \in BOOLEAN :
       IF ok
       THEN /\ cloc' = [cloc EXCEPT ![g].chainData = ChainsOf(directory)]
            /\ cpc' = [cpc EXCEPT ![g] = "Lock"]
       ELSE /\ cloc' = [cloc EXCEPT ![g].out = "error"]
            /\ cpc' = [cpc EXCEPT ![g] = "done"]
  /\ UNCHANGED <<chainsCache, chainsCacheInitialized, chainsCacheMu, directory,
                 txVars, httpVars, apiVars, nonceVars>>

\* chainsCacheMu.Lock()
Lock(g) ==
  /\ cpc[g] = "Lock"
  /\ chainsCacheMu = [w |-> "none", r |-> {}]
  /\ chainsCacheMu' = [chainsCacheMu EXCEPT !.w = g]
  /\ cpc' = [cpc EXCEPT ![g] = "storeData"]
  /\ UNCHANGED <<chainsCache, chainsCacheInitialized, directory, cloc,
                 txVars, httpVars, apiVars, nonceVars>>

\* chainsCache = chainData, the array pointer
storeChainsData(g) ==
  /\ cpc[g] = "storeData"
  /\ chainsCache' = [chainsCache EXCEPT !.data = cloc[g].chainData.data]
  /\ cpc' = [cpc EXCEPT ![g] = "storeLen"]
  /\ UNCHANGED <<chainsCacheInitialized, chainsCacheMu, directory, cloc,
                 txVars, httpVars, apiVars, nonceVars>>

\* chainsCache = chainData, the length
storeChainsLen(g) ==
  /\ cpc[g] = "storeLen"
  /\ chainsCache' = [chainsCache EXCEPT !.len = cloc[g].chainData.len]
  /\ cpc' = [cpc EXCEPT ![g] = "storeFlag"]
  /\ UNCHANGED <<chainsCacheInitialized, chainsCacheMu, directory, cloc,
                 txVars, httpVars, apiVars, nonceVars>>

\* chainsCacheInitialized = true
storeInitialized(g) ==
  /\ cpc[g] = "storeFlag"
  /\ chainsCacheInitialized' = TRUE
  /\ cpc' = [cpc EXCEPT ![g] = "Unlock"]
  /\ UNCHANGED <<chainsCache, chainsCacheMu, directory, cloc, txVars, httpVars, apiVars, nonceVars>>

\* chainsCacheMu.Unlock(); refreshChainsCache returns nil
Unlock(g) ==
  /\ cpc[g] = "Unlock"
  /\ chainsCacheMu' = [chainsCacheMu EXCEPT !.w = "none"]
  /\ cpc' = [cpc EXCEPT ![g] = "RLockSearch"]
  /\ UNCHANGED <<chainsCache, chainsCacheInitialized, directory, cloc,
                 txVars, httpVars, apiVars, nonceVars>>

\* The loop over chainsCache.Chains of resolveRpcUrl, and the deferred
\* RUnlock: the chain is there if its id is within the list.
searchChains(g) ==
  /\ cpc[g] = "search"
  /\ cloc[g].fn = "resolveRpcUrl"
  /\ cloc' = [cloc EXCEPT ![g].seen = Observed,
                          ![g].out = IF cloc[g].chain <= chainsCache.len
                                     THEN "url" ELSE "notFound"]
  /\ chainsCacheMu' = [chainsCacheMu EXCEPT !.r = @ \ {g}]
  /\ cpc' = [cpc EXCEPT ![g] = "done"]
  /\ UNCHANGED <<chainsCache, chainsCacheInitialized, directory, txVars, httpVars, apiVars, nonceVars>>

\* getChainsHandler under its second RLock, whose RUnlock is deferred to the
\* return: without a filter, or with chains that match it, the handler
\* returns them; with no match it goes on to ask upstream, the lock held.
filterChains(g) ==
  /\ cpc[g] = "search"
  /\ cloc[g].fn = "getChainsHandler"
  /\ IF cloc[g].chain = 0 \/ cloc[g].chain <= chainsCache.len
     THEN /\ cloc' = [cloc EXCEPT ![g].seen = Observed, ![g].out = "chains"]
          /\ chainsCacheMu' = [chainsCacheMu EXCEPT !.r = @ \ {g}]
          /\ cpc' = [cpc EXCEPT ![g] = "done"]
     ELSE /\ cloc' = [cloc EXCEPT ![g].seen = Observed]
          /\ cpc' = [cpc EXCEPT ![g] = "GetFiltered"]
          /\ UNCHANGED chainsCacheMu
  /\ UNCHANGED <<chainsCache, chainsCacheInitialized, directory, txVars, httpVars, apiVars, nonceVars>>

\* getChainsHandler, s.httpClient.Get of the filtered list and the return:
\* the deferred RUnlock runs when the request has returned.
getFilteredChains(g) ==
  /\ cpc[g] = "GetFiltered"
  /\ \E ok \in BOOLEAN :
       cloc' = [cloc EXCEPT ![g].out = IF ok THEN "body" ELSE "error"]
  /\ chainsCacheMu' = [chainsCacheMu EXCEPT !.r = @ \ {g}]
  /\ cpc' = [cpc EXCEPT ![g] = "done"]
  /\ UNCHANGED <<chainsCache, chainsCacheInitialized, directory, txVars, httpVars, apiVars, nonceVars>>

\* The lookup has returned; the goroutine serves its next call.
lookupReturned(g) ==
  /\ cpc[g] = "done"
  /\ cpc' = [cpc EXCEPT ![g] = "idle"]
  /\ cloc' = [cloc EXCEPT ![g] = NoLookup]
  /\ UNCHANGED <<chainsCache, chainsCacheInitialized, chainsCacheMu, directory,
                 txVars, httpVars, apiVars, nonceVars>>

NextCache ==
  \/ DirectoryChange
  \/ \E g \in Goroutines : resolveRpcUrl(g)
  \/ \E g \in Goroutines : getChainsHandler(g)
  \/ \E g \in Goroutines : RLock(g)
  \/ \E g \in Goroutines : readInitialized(g)
  \/ \E g \in Goroutines : refreshChainsCache(g)
  \/ \E g \in Goroutines : Lock(g)
  \/ \E g \in Goroutines : storeChainsData(g)
  \/ \E g \in Goroutines : storeChainsLen(g)
  \/ \E g \in Goroutines : storeInitialized(g)
  \/ \E g \in Goroutines : Unlock(g)
  \/ \E g \in Goroutines : searchChains(g)
  \/ \E g \in Goroutines : filterChains(g)
  \/ \E g \in Goroutines : getFilteredChains(g)
  \/ \E g \in Goroutines : lookupReturned(g)

(***************************************************************************)
(* The inbound side: a tool call arrives over HTTP with its headers, the   *)
(* context function extracts its credential, the handler validates the     *)
(* arguments and calls upstream, all inside the recovery wrapper.          *)
(***************************************************************************)

\* The inbound calls that may be in flight together.
Sessions == {"s1", "s2"}

\* "Bearer "
Bearer == <<"B", "e", "a", "r", "e", "r", " ">>

\* strings.HasPrefix
HasPrefix(s, p) == Len(s) >= Len(p) /\ SubSeq(s, 1, Len(p)) = p

\* A context: whether it carries a value under ctxKeyAPIKey, and the value.
NoCtx == [has |-> FALSE, v |-> <<>>]

\* An extraction that prefers the custom header.
ExtractAPIKeyFromRequestCustomFirst(auth, xkey) ==
  IF xkey # <<>> THEN [has |-> TRUE, v |-> xkey]
  ELSE IF HasPrefix(auth, Bearer) /\ Len(auth) > Len(Bearer)
    THEN [has |-> TRUE, v |-> SubSeq(auth, Len(Bearer) + 1, Len(auth))]
  ELSE NoCtx

\* ExtractAPIKeyFromRequest on a request with the Authorization header auth
\* and the X-LiFi-Api-Key header xkey (empty: the header is not there).
ExtractAPIKeyFromRequest(auth, xkey) ==
  LET apiKey == SubSeq(auth, Len(Bearer) + 1, Len(auth))
  IN  IF HasPrefix(auth, Bearer) /\ apiKey # <<>>
        THEN [has |-> TRUE, v |-> apiKey]
      ELSE IF xkey # <<>> THEN [has |-> TRUE, v |-> xkey]
      ELSE NoCtx

APIKeyFromContext(ctx) == IF ctx.has THEN ctx.v ELSE <<>>

\* (*big.Int).SetString(s, 10) on an amount of any length: [ok, sign], sign
\* being amountInt.Sign() after the call.
SetStringSign(s) ==
  LET neg  == s # <<>> /\ s[1] = "-"
      sgn  == s # <<>> /\ s[1] \in {"+", "-"}
      body == IF sgn THEN Tail(s) ELSE s
      n    == DigitPrefixLen(body, 10)
  IN  [ok   |-> n > 0 /\ n = Len(body),
       sign |-> IF \A i \in 1..n : body[i] = "0" THEN 0
                ELSE IF neg THEN 0 - 1 ELSE 1]

MaxAmountDigits == 78

\* The validators: the message of the ValidationError, "" for nil.
ValidateAddress(address) ==
  IF address = <<>> THEN "address is required"
  ELSE IF ~IsHexAddress(address) THEN "invalid address format"
  ELSE ""

ValidateRecipientAddress(address) ==
  IF ValidateAddress(address) # "" THEN ValidateAddress(address)
  ELSE IF EqualFold(address, ZeroAddress) THEN "cannot send to zero address"
  ELSE ""

ValidateTokenAddress(address) ==
  IF address = <<>> THEN "token address is required"
  ELSE IF ~IsHexAddress(address) THEN "invalid token address format"
  ELSE ""

ValidateChainID(chainID) ==
  IF chainID = <<>> THEN "chain ID is required"
  ELSE IF ~ParseInt(chainID, 10).ok THEN "invalid chain ID format"
  ELSE IF ParseInt(chainID, 10).v <= 0 THEN "chain ID must be a positive integer"
  ELSE ""

ValidateAmount(amount) ==
  IF amount = <<>> THEN "amount is required"
  ELSE IF Len(amount) > MaxAmountDigits
    THEN "amount exceeds maximum allowed digits"
  ELSE IF ~SetStringSign(amount).ok THEN "invalid amount format"
  ELSE IF SetStringSign(amount).sign < 0 THEN "amount cannot be negative"
  ELSE IF SetStringSign(amount).sign = 0 THEN "amount cannot be zero"
  ELSE ""

\* strconv.ParseFloat(s, 64) on the strings without exponent, hexadecimal
\* mantissa or underscores: an optional sign, then "inf" or "infinity" in any
\* case, or digits with at most one point and at least one digit; "nan" in
\* any case without a sign.  The value is neg, num / den.
ParseFloat(s) ==
  LET neg    == s # <<>> /\ s[1] = "-"
      sgn    == s # <<>> /\ s[1] \in {"+", "-"}
      body   == IF sgn THEN Tail(s) ELSE s
      n      == DigitPrefixLen(body, 10)
      rest   == SubSeq(body, n + 1, Len(body))
      point  == rest # <<>> /\ rest[1] = "."
      frac   == IF point THEN Tail(rest) ELSE <<>>
      digits == SubSeq(body, 1, n) \o frac
      val(ok, kind, num, den) ==
        [ok |-> ok, kind |-> kind, neg |-> neg, num |-> num, den |-> den]
  IN  IF ToLower(s) = <<"n", "a", "n">> THEN val(TRUE, "nan", 0, 1)
      ELSE IF ToLower(body) \in {<<"i", "n", "f">>,
                                 <<"i", "n", "f", "i", "n", "i", "t", "y">>}
        THEN val(TRUE, "inf", 0, 1)
      ELSE IF /\ point \/ rest = <<>>
              /\ DigitPrefixLen(frac, 10) = Len(frac)
              /\ digits # <<>>
        THEN val(TRUE, "num", DigitsValue(digits, 10),
                 DigitsValue(<<"1">> \o Rep("0", Len(frac)), 10))
      ELSE val(FALSE, "num", 0, 1)

\* ValidateSlippage: the message of the error, "" for nil.  No comparison
\* with a NaN is true.
ValidateSlippage(slippage) ==
  LET val == ParseFloat(slippage)
  IN  IF slippage = <<>> THEN ""
      ELSE IF ~val.ok THEN "invalid slippage format"
      ELSE IF \/ val.kind = "inf" /\ val.neg
              \/ val.kind = "num" /\ val.neg /\ val.num > 0
        THEN "slippage cannot be negative"
      ELSE IF \/ val.kind = "inf" /\ ~val.neg
              \/ val.kind = "num" /\ ~val.neg /\ val.num > val.den
        THEN "slippage cannot exceed 1 (100%)"
      ELSE ""

\* getQuoteHandler and getRoutesHandler: the first validation that fails.
QuoteArgError(a) ==
  IF ValidateChainID(a.fromChain) # "" THEN ValidateChainID(a.fromChain)
  ELSE IF ValidateChainID(a.toChain) # "" THEN ValidateChainID(a.toChain)
  ELSE IF ValidateTokenAddress(a.fromToken) # ""
    THEN ValidateTokenAddress(a.fromToken)
  ELSE IF ValidateTokenAddress(a.toToken) # ""
    THEN ValidateTokenAddress(a.toToken)
  ELSE IF ValidateAddress(a.fromAddress) # "" THEN ValidateAddress(a.fromAddress)
  ELSE IF ValidateAmount(a.fromAmount) # "" THEN ValidateAmount(a.fromAmount)
  ELSE IF a.toAddress # <<>> /\ ValidateRecipientAddress(a.toAddress) # ""
    THEN ValidateRecipientAddress(a.toAddress)
  ELSE ValidateSlippage(a.slippage)

\* getQuoteWithCallsHandler
QuoteWithCallsArgError(a) ==
  IF \/ a.fromChain = <<>> \/ a.toChain = <<>> \/ a.fromToken = <<>>
     \/ a.toToken = <<>> \/ a.fromAddress = <<>> \/ a.fromAmount = <<>>
    THEN "required parameters"
  ELSE IF ~a.hasCalls THEN "contractCalls array is required and must not be empty"
  ELSE ""

QuoteTools == {"get-quote", "get-routes", "get-quote-with-calls"}

ArgError(t, a) ==
  IF t = "get-quote-with-calls" THEN QuoteWithCallsArgError(a)
  ELSE QuoteArgError(a)

\* A well-formed quote request, and the requests that differ from it in one
\* argument.
DefaultQuoteArgs ==
  [fromChain |-> <<"1">>, toChain |-> <<"1", "0">>, fromToken |-> TokenHex,
   toToken |-> ZeroAddress, fromAddress |-> WalletHex,
   fromAmount |-> <<"1", "0", "0">>, toAddress |-> <<>>, slippage |-> <<>>,
   hasCalls |-> TRUE]

QuoteArgs ==
  { [DefaultQuoteArgs EXCEPT !.fromChain = v] :
      v \in {<<>>, <<"1">>, <<"0">>, <<"-", "1">>, <<"z">>, <<"0", "x", "1">>} }
  \cup { [DefaultQuoteArgs EXCEPT !.toChain = v] : v \in {<<>>, <<"z">>} }
  \cup { [DefaultQuoteArgs EXCEPT !.fromToken = v] : v \in {<<>>, BadHex} }
  \cup { [DefaultQuoteArgs EXCEPT !.toToken = v] : v \in {<<>>, BadHex} }
  \cup { [DefaultQuoteArgs EXCEPT !.fromAddress = v] :
           v \in {<<>>, BadHex, OtherHex, ZeroAddress} }
  \cup { [DefaultQuoteArgs EXCEPT !.fromAmount = v] :
           v \in {<<>>, <<"z">>, <<"0">>, <<"0", "0">>, <<"-", "5">>, <<"+", "5">>,
                  <<"0", "7">>, Rep("9", 78), Rep("9", 79)} }
  \cup { [DefaultQuoteArgs EXCEPT !.toAddress = v] :
           v \in {BadHex, OtherHex, WalletHex, ZeroAddress, Rep("0", 40),
                  <<"0", "X">> \o Rep("0", 40)} }
  \cup { [DefaultQuoteArgs EXCEPT !.slippage = v] :
           v \in {<<"0">>, <<"1">>, <<"0", ".", "5">>, <<".", "5">>, <<"1", ".">>,
                  <<"1", ".", "0">>, <<"1", ".", "5">>, <<"2">>, <<"+", "1">>,
                  <<"-", "0">>, <<"-", "0", ".", "1">>, <<"z">>, <<".">>,
                  <<"0", ".", "0", "0", "5">>, <<"N", "a", "N">>,
                  <<"n", "a", "n">>, <<"I", "n", "f">>, <<"-", "i", "n", "f">>} }
  \cup { [DefaultQuoteArgs EXCEPT !.hasCalls = FALSE] }

\* The values of the Authorization and of the X-LiFi-Api-Key header (empty:
\* the request has no such header).
AuthHeaders ==
  {<<>>, Bearer, Bearer \o <<"k", "1">>,
   <<"b", "e", "a", "r", "e", "r", " ", "k", "1">>}

KeyHeaders == {<<>>, <<"k", "2">>}

\* The calls a session makes: the well-formed get-quote under every pair of
\* headers and, from the first session, every request of every quote tool
\* without a credential.
InboundCalls(s) ==
  [tool : {"get-quote"}, args : {DefaultQuoteArgs}, auth : AuthHeaders,
   xkey : KeyHeaders]
    \cup IF s = "s1"
         THEN [tool : QuoteTools, args : QuoteArgs, auth : {<<>>}, xkey : {<<>>}]
         ELSE {}

\* A tool result and the Go error returned with it.
NoToolResult == [isError |-> FALSE, text |-> "", goErr |-> FALSE]
ToolResultError(m) == [isError |-> TRUE, text |-> m, goErr |-> FALSE]
ToolResultText(m) == [isError |-> FALSE, text |-> m, goErr |-> FALSE]

NoInbound ==
  [st |-> "idle", tool |-> "none", args |-> DefaultQuoteArgs, auth |-> <<>>,
   xkey |-> <<>>, ctx |-> NoCtx, apiKey |-> <<>>, wire |-> <<>>,
   result |-> NoToolResult, panicked |-> FALSE]

InitApi ==
  /\ inb = [s \in Sessions |-> NoInbound]
  /\ serving = TRUE

\* The transport receives a tool call: the context function runs on the
\* request's headers, and the handler starts with apiKey := APIKeyFromContext.
Inbound(s) ==
  /\ serving
  /\ inb[s].st = "idle"
  /\ \E r \in InboundCalls(s) :
       LET ctx == ExtractAPIKeyFromRequest(r.auth, r.xkey)
       IN  inb' = [inb EXCEPT ![s] =
                     [NoInbound EXCEPT !.st = "handler", !.tool = r.tool,
                                       !.args = r.args, !.auth = r.auth,
                                       !.xkey = r.xkey, !.ctx = ctx,
                                       !.apiKey = APIKeyFromContext(ctx)]]
  /\ UNCHANGED <<serving, txVars, httpVars, cacheVars, nonceVars>>

\* The key of some call in flight, as a client built with one key would use.
RequestKeyShared(s) ==
  LET others == {t \in Sessions \ {s} : inb[t].st # "idle"}
  IN  IF others = {} THEN inb[s].apiKey ELSE inb[CHOOSE t \in others : TRUE].apiKey

\* The apiKey argument that reaches doRequest on behalf of the call s: the
\* handler's local, handed down through Get/Post and doWithRetry.
RequestKey(s) == inb[s].apiKey

\* doRequest: the x-lifi-api-key headers of the request.
doRequestHeader(apiKey) == IF apiKey # <<>> THEN <<apiKey>> ELSE <<>>

\* The handler validates its arguments and returns the error, or calls
\* s.httpClient.Get/Post.
Handle(s) ==
  /\ serving
  /\ inb[s].st = "handler"
  /\ LET m == ArgError(inb[s].tool, inb[s].args)
     IN  IF m # ""
         THEN inb' = [inb EXCEPT ![s].st = "done",
                                 ![s].result = ToolResultError(m)]
         ELSE inb' = [inb EXCEPT ![s].st = "upstream",
                                 ![s].wire = Append(@, doRequestHeader(RequestKey(s)))]
  /\ UNCHANGED <<serving, txVars, httpVars, cacheVars, nonceVars>>

\* Get/Post returns the body or an error.
Respond(s) ==
  /\ serving
  /\ inb[s].st = "upstream"
  /\ \E ok \in BOOLEAN :
       inb' = [inb EXCEPT ![s].st = "done",
                          ![s].result = IF ok THEN ToolResultText("body")
                                        ELSE ToolResultError("error making request")]
  /\ UNCHANGED <<serving, txVars, httpVars, cacheVars, nonceVars>>

\* A wrapper that does not recover: the panic leaves the handler's goroutine
\* and ends the process.
withPanicRecoveryNone(panic) ==
  [result |-> NoToolResult, serving |-> ~panic]

\* withPanicRecovery: what the wrapped handler returns when its body panics,
\* and whether the process lives on.
withPanicRecovery(panic) ==
  [result |-> IF panic THEN ToolResultError("internal error: handler panic")
              ELSE NoToolResult,
   serving |-> TRUE]

\* The body of the handler panics.
Panic(s) ==
  /\ serving
  /\ inb[s].st \in {"handler", "upstream"}
  /\ inb' = [inb EXCEPT ![s].st = "done", ![s].panicked = TRUE,
                        ![s].result = withPanicRecovery(TRUE).result]
  /\ serving' = withPanicRecovery(TRUE).serving
  /\ UNCHANGED <<txVars, httpVars, cacheVars, nonceVars>>

\* The result goes back to the transport.
Finish(s) ==
  /\ serving
  /\ inb[s].st = "done"
  /\ inb' = [inb EXCEPT ![s] = NoInbound]
  /\ UNCHANGED <<serving, txVars, httpVars, cacheVars, nonceVars>>

NextApi ==
  \/ \E s \in Sessions : Inbound(s)
  \/ \E s \in Sessions : Handle(s)
  \/ \E s \in Sessions : Respond(s)
  \/ \E s \in Sessions : Panic(s)
  \/ \E s \in Sessions : Finish(s)

(***************************************************************************)
(* Tool calls that submit transactions, served concurrently with the one   *)
(* key of the server: each is a goroutine of its own, and the node counts  *)
(* the transactions of the wallet it has taken into its pool.              *)
(***************************************************************************)

\* The tool calls that may be in flight together.
ToolCalls == {"c1", "c2"}

\* No call starts once the node has seen that many broadcasts.
MaxBroadcasts == 3

NoSubmit == [tool |-> "none", nonce |-> 0, out |-> "none"]

InitNonce ==
  /\ wpc = [k \in ToolCalls |-> "idle"]
  /\ wloc = [k \in ToolCalls |-> NoSubmit]
  /\ pendingNonce = 0
  /\ broadcasts = <<>>

\* A handler that submits a transaction starts, with the key of the server.
submitHandler(k) ==
  /\ privateKey
  /\ wpc[k] = "idle"
  /\ Len(broadcasts) < MaxBroadcasts
  /\ \E t \in {"execute-quote", "approve-token", "transfer-token", "transfer-native"} :
       wloc' = [wloc EXCEPT ![k] = [NoSubmit EXCEPT !.tool = t]]
  /\ wpc' = [wpc EXCEPT ![k] = "PendingNonceAt"]
  /\ UNCHANGED <<pendingNonce, broadcasts, txVars, httpVars, cacheVars, apiVars>>

\* client.PendingNonceAt(ctx, walletAddress): the node's count of the
\* wallet's transactions, those in its pool included.
PendingNonceAt(k) ==
  /\ wpc[k] = "PendingNonceAt"
  /\ \E ok \in BOOLEAN :
       IF ok
       THEN /\ wloc' = [wloc EXCEPT ![k].nonce = pendingNonce]
            /\ wpc' = [wpc EXCEPT ![k] = "SendTransaction"]
       ELSE /\ wloc' = [wloc EXCEPT ![k].out = "failed to get nonce"]
            /\ wpc' = [wpc EXCEPT ![k] = "done"]
  /\ UNCHANGED <<pendingNonce, broadcasts, txVars, httpVars, cacheVars, apiVars>>

\* From the nonce to the broadcast: a step between them fails and the call
\* returns, or the transaction is built with the nonce, signed and sent.  The
\* node takes a transaction with the next nonce of the wallet into its pool
\* and refuses one whose nonce it has already seen.
SendTransaction(k) ==
  /\ wpc[k] = "SendTransaction"
  /\ \E ok \in BOOLEAN :
       IF ~ok
       THEN /\ wloc' = [wloc EXCEPT ![k].out = "error"]
            /\ UNCHANGED <<pendingNonce, broadcasts>>
       ELSE /\ broadcasts' = Append(broadcasts,
                                    [call |-> k, nonce |-> wloc[k].nonce])
            /\ IF wloc[k].nonce = pendingNonce
               THEN /\ pendingNonce' = pendingNonce + 1
                    /\ wloc' = [wloc EXCEPT ![k].out = "transactionHash"]
               ELSE /\ UNCHANGED pendingNonce
                    /\ wloc' = [wloc EXCEPT ![k].out = "failed to send transaction"]
  /\ wpc' = [wpc EXCEPT ![k] = "done"]
  /\ UNCHANGED <<txVars, httpVars, cacheVars, apiVars>>

\* The handler has returned; the server serves the next call.
submitReturned(k) ==
  /\ wpc[k] = "done"
  /\ wpc' = [wpc EXCEPT ![k] = "idle"]
  /\ wloc' = [wloc EXCEPT ![k] = NoSubmit]
  /\ UNCHANGED <<pendingNonce, broadcasts, txVars, httpVars, cacheVars, apiVars>>

NextNonce ==
  \/ \E k \in ToolCalls : submitHandler(k)
  \/ \E k \in ToolCalls : PendingNonceAt(k)
  \/ \E k \in ToolCalls : SendTransaction(k)
  \/ \E k \in ToolCalls : submitReturned(k)

Init == InitTx /\ InitHttp /\ InitCache /\ InitApi /\ InitNonce

SpecTx == Init /\ [][NextTx]_vars

\* The server started with a key: the HTTP client does not use it.
InitWithKey == Init /\ privateKey

\* The calls of Get/Post, one at a time, by the callers of Retrying.
SpecHttp == InitWithKey /\ [][NextHttp]_vars

\* The limiter under concurrent callers, until the clock stops.
NextLimiter ==
  \/ \E c \in Callers : Call(c)
  \/ \E c \in Callers : Cancel(c)
  \/ Tick
  \/ \E c \in Callers : acquire(c)
  \/ \E c \in Callers : acquireTimer(c)
  \/ \E c \in Callers : acquireCancelled(c)
  \/ \E c \in Callers : Proceed(c)

SpecLimiter == InitWithKey /\ [][NextLimiter]_vars

\* The limiter under concurrent callers and a clock that never stops.  Time
\* passes; a goroutine whose select has a ready case runs; sync.Mutex hands
\* the lock to a goroutine that keeps waiting for it (starvation mode).
NextLimiterFair == NextLimiter \/ Elapse

SpecLimiterFair ==
  /\ InitWithKey
  /\ [][NextLimiterFair]_vars
  /\ WF_vars(Tick)
  /\ WF_vars(Elapse)
  /\ \A c \in Callers : WF_vars(acquireTimer(c))
  /\ \A c \in Callers : WF_vars(acquireCancelled(c))
  /\ \A c \in Callers : SF_vars(acquire(c))

\* The lookups of the chain cache, by concurrent goroutines.
SpecCache == InitWithKey /\ [][NextCache]_vars

\* The transaction tools, served concurrently.
SpecNonce == InitWithKey /\ [][NextNonce]_vars

\* The inbound tool calls of the quote and route tools.
SpecApi == InitWithKey /\ [][NextApi]_vars

(***************************************************************************)
(* Properties of the transaction execution engine, checked under SpecTx.   *)
(***************************************************************************)

\* The call has performed the operation op.
Did(op) == \E i \in DOMAIN trace : trace[i].op = op

\* The call has performed the operation op, and it succeeded.
DidOk(op) == \E i \in DOMAIN trace : trace[i].op = op /\ trace[i].ok

Finished == result # NoResult

\* The lookups of token metadata, whose failure the handlers replace by
\* default values.
BestEffortOps == {"CallContract:symbol", "CallContract:decimals", "getNativeTokenInfo"}

\* C1 as stated: SendTransaction is invoked only if every earlier step of the
\* call succeeded.
C1_SendOnlyAfterAllSucceeded ==
  \A i \in DOMAIN trace :
    trace[i].op = "SendTransaction" => \A j \in 1..(i - 1) : trace[j].ok

\* C1, amended: SendTransaction is invoked only if every earlier step other
\* than the best-effort token metadata lookups succeeded; a failure of any
\* other step ends the call there with an error result, so that no
\* SendTransaction follows it.
C1_SendOnlyAfterRequiredSteps ==
  /\ \A i \in DOMAIN trace :
       trace[i].op = "SendTransaction" =>
         \A j \in 1..(i - 1) : trace[j].ok \/ trace[j].op \in BestEffortOps
  /\ \A j \in DOMAIN trace :
       (~trace[j].ok /\ trace[j].op \notin BestEffortOps) =>
         /\ j = Len(trace)
         /\ result.isError
         /\ (trace[j].op # "SendTransaction" => sent = <<>>)

\* A call that a failed signing ended, with an error and no broadcast.
C1_Witness ==
  /\ Did("SignTx") /\ ~DidOk("SignTx")
  /\ result.isError
  /\ ~Did("SendTransaction")

\* C2 as stated: a call that ends because the simulation reverted has not
\* invoked SignTx.
C2_NoSignBeforeRevert ==
  (Did("CallContract:simulate") /\ ~DidOk("CallContract:simulate"))
    => ~Did("SignTx")

\* The chain id a well-formed chainId field denotes: a number, a string of
\* decimal digits, or 0x and hexadecimal digits; NilInt for anything else.
CarriedChainId(d) ==
  CASE d.chainId.t = "number" -> BigInt(d.chainId.n)
    [] d.chainId.t = "string" /\ HasPrefix0x(d.chainId.s)
         /\ SetString(Drop2(d.chainId.s), 16).ok
         -> BigInt(SetString(Drop2(d.chainId.s), 16).z)
    [] d.chainId.t = "string" /\ SetString(d.chainId.s, 10).ok
         -> BigInt(SetString(d.chainId.s, 10).z)
    [] OTHER -> NilInt

\* The descriptor carries a chain id other than the one the node reported.
ChainIdDiffers ==
  /\ tool = "execute-quote"
  /\ DidOk("ChainID")
  /\ ~CarriedChainId(args.txRequest).isNil
  /\ CarriedChainId(args.txRequest).v # node.chainId

\* C3: execute-quote with a descriptor whose chainId differs from the chain id
\* the RPC endpoint reported never invokes SignTx or SendTransaction and ends
\* with an error, which is the chain id mismatch error when the descriptor
\* passes the checks that come before that of the chain id.
C3_ChainIdMismatchRejected ==
  ChainIdDiffers =>
    /\ ~Did("SignTx")
    /\ ~Did("SendTransaction")
    /\ (Finished => result.isError)
    /\ (Finished
          /\ DescriptorError([args.txRequest EXCEPT !.chainId = Absent],
                             node.chainId) = ""
          => result = Err("chain ID in transaction doesn't match network chain ID"))

\* A call the chain id mismatch has ended.
C3_Witness ==
  /\ ChainIdDiffers
  /\ result = Err("chain ID in transaction doesn't match network chain ID")

\* C4 as stated: transfer-token and transfer-native with the zero address as
\* recipient make no RPC connection and sign and broadcast nothing.
C4_ZeroRecipientRejected ==
  (tool \in {"transfer-token", "transfer-native"} /\ EqualFold(args.to, ZeroAddress))
    => ~Did("Dial") /\ ~Did("SignTx") /\ ~Did("SendTransaction")

\* C5 as stated: execute-quote with a 'from' that is not the wallet's address
\* is rejected before any network call.
C5_FromMismatchBeforeNetwork ==
  (/\ tool = "execute-quote"
   /\ args.hasTx
   /\ args.txRequest.from.t = "string"
   /\ args.txRequest.from.s # <<>>
   /\ ~EqualFold(args.txRequest.from.s, WalletHex))
    => ~Did("Dial") /\ ~Did("ChainID")

\* C6: transfer-token whose balanceOf result is less than the requested amount
\* returns "insufficient token balance: have <balance>, need <amount>" and
\* performs no transfer simulation, no signing and no broadcast.
C6_InsufficientTokenBalance ==
  (/\ tool = "transfer-token"
   /\ DidOk("CallContract:balanceOf")
   /\ loc.balance < SetString(args.amount, 10).z)
    => /\ result = ErrHaveNeed("insufficient token balance", loc.balance,
                               SetString(args.amount, 10).z)
       /\ ~Did("CallContract:simulate")
       /\ ~Did("SignTx")
       /\ ~Did("SendTransaction")

\* Balance 100, amount 200.
C6_Witness ==
  /\ tool = "transfer-token"
  /\ args.amount = <<"2", "0", "0">>
  /\ result = ErrHaveNeed("insufficient token balance", 100, 200)

\* The fee per gas transfer-native has to resolve on the node it talks to.
NativeFee ==
  IF node.baseFee # 0 THEN 2 * node.baseFee + loc.gasTipCap ELSE loc.gasPrice

\* C7: transfer-native never estimates gas, gives its transaction the gas
\* limit 21000, and signs and broadcasts only if the balance is at least
\* amount + 21000 * fee.
C7_NativeTransferBalance ==
  tool = "transfer-native" =>
    /\ ~Did("EstimateGas")
    /\ (Did("SignTx") \/ Did("SendTransaction")) =>
         loc.balance >= SetString(args.amount, 10).z + 21000 * NativeFee
    /\ loc.tx # NoTx => loc.tx.gas = 21000
    /\ \A i \in DOMAIN sent : sent[i].gas = 21000

\* A native transfer broadcast on a network with a base fee.
C7_Witness ==
  /\ tool = "transfer-native"
  /\ node.baseFee # 0
  /\ result = Ok
  /\ Len(sent) = 1

\* The call was given no explicit gas price.
NoExplicitGasPrice == tool = "execute-quote" => args.txRequest.gasPrice = Absent

\* C8: every transaction signed without an explicit gas price, by any of the
\* four tools, is a dynamic-fee one exactly if the node's latest header has a
\* base fee.
C8_ShapeFollowsBaseFee ==
  (loc.tx # NoTx /\ NoExplicitGasPrice) =>
    (loc.tx.type = "dynamic" <=> node.baseFee # 0)

\* The gas limit comes from an estimate: always in approve-token and
\* transfer-token, and in execute-quote when the descriptor has no gasLimit.
GasLimitEstimated ==
  \/ tool \in {"approve-token", "transfer-token"}
  \/ tool = "execute-quote" /\ args.txRequest.gasLimit = Absent

\* C9: the gas limit of a signed or submitted transaction whose gas limit was
\* not supplied is the estimate plus 20%, rounded down; 100000 gives 120000.
C9_GasBuffer ==
  (GasLimitEstimated /\ loc.tx # NoTx) =>
    /\ loc.tx.gas = (loc.estimate * 120) \div 100
    /\ loc.estimate = 100000 => loc.tx.gas = 120000
    /\ \A i \in DOMAIN sent : sent[i].gas = loc.tx.gas

\* execute-quote has submitted a transaction after an estimate of 100000.
C9_Witness ==
  /\ tool = "execute-quote"
  /\ args.txRequest.gasLimit = Absent
  /\ loc.estimate = 100000
  /\ Len(sent) = 1
  /\ sent[1].gas = 120000

(***************************************************************************)
(* Properties of the HTTP client, checked under SpecHttp.                  *)
(***************************************************************************)

\* The number of entries of the caller's log that satisfy Test.
CountLog(c, Test(_)) == Cardinality({i \in DOMAIN hlog[c] : Test(hlog[c][i])})

IsAdmission(x) == x = Admitted
IsAttempt(x) == x.e = "doRequest"
IsSend(x) == x.e = "doRequest" /\ x.ok

Admissions(c) == CountLog(c, IsAdmission)
Attempts(c) == CountLog(c, IsAttempt)

\* C10: in every call of Get or Post, each attempt (each doRequest, the
\* retries included) comes directly after a successful acquire of its own;
\* a call that has returned has made as many attempts as it got admissions;
\* nothing follows an acquire that returned an error, and the call then
\* returns the limiter's error.
C10_AcquireBeforeEveryAttempt ==
  \A c \in Callers :
    /\ \A i \in DOMAIN hlog[c] :
         IsAttempt(hlog[c][i]) => i > 1 /\ hlog[c][i - 1] = Admitted
    /\ \A i \in DOMAIN hlog[c] :
         hlog[c][i] = Refused => i = Len(hlog[c])
    /\ hpc[c] = "done" => Admissions(c) = Attempts(c)
    /\ hpc[c] = "done" /\ hlog[c] # <<>> /\ hlog[c][Len(hlog[c])] = Refused
         => ret[c] = RetErr(Wrap(CtxErr))
    /\ ret[c].err.wrap = "rate limiter"
         => hlog[c] # <<>> /\ hlog[c][Len(hlog[c])] = Refused

\* A call has used every retry: four attempts, four admissions, one of them
\* after a wait for the bucket to refill.
C10_Witness ==
  \E c \in Callers :
    /\ hpc[c] = "done"
    /\ Attempts(c) = maxRetries + 1
    /\ Admissions(c) = maxRetries + 1
    /\ CountLog(c, IsSend) = maxRetries + 1
    /\ now > 0

IsSleep(x) == x = Slept
Sleeps(c) == CountLog(c, IsSleep)

\* The last entry of the caller's log is e.
LastIs(c, e) == hlog[c] # <<>> /\ hlog[c][Len(hlog[c])] = e

\* The statuses of the responses to the call's attempts, in order.
AttemptStatuses(c) ==
  LET reqs == SelectSeq(hlog[c], IsAttempt)
  IN  [i \in 1..Len(reqs) |-> reqs[i].status]

\* C11: a call of Get or Post makes at most maxRetries + 1 = 4 attempts and
\* sleeps at most maxRetries = 3 backoffs, whatever the outcomes: a backoff
\* is only ever begun after fewer than 3 completed ones.
C11_AtMostFourAttempts ==
  \A c \in Callers :
    /\ Attempts(c) <= maxRetries + 1
    /\ Attempts(c) <= 4
    /\ Sleeps(c) <= 3
    /\ hpc[c] = "backoff" => Sleeps(c) < 3 /\ Attempts(c) < 4
    /\ attempt[c] <= maxRetries

\* A call has failed after its fourth attempt got a 500, having slept three
\* backoffs.
C11_Witness ==
  \E c \in Callers :
    /\ hpc[c] = "done"
    /\ AttemptStatuses(c) = <<500, 500, 500, 500>>
    /\ Sleeps(c) = 3
    /\ ret[c] = RetErr(HttpErr("http", 500, 0))

\* C12: an attempt that receives a 4xx status other than 429 is the last
\* entry of its call: the call has returned that error, with no backoff, no
\* attempt and no acquire after it.
C12_ClientErrorIsTerminal ==
  \A c \in Callers :
    \A i \in DOMAIN hlog[c] :
      (/\ IsAttempt(hlog[c][i])
       /\ hlog[c][i].status >= 400 /\ hlog[c][i].status < 500
       /\ hlog[c][i].status # 429)
        => /\ i = Len(hlog[c])
           /\ hpc[c] = "done"
           /\ ret[c] = RetErr(HttpErr("http", hlog[c][i].status, 0))

\* A call that got a 404 on its first attempt has returned it.
C12_Witness ==
  \E c \in Callers :
    /\ hlog[c] = <<Admitted, Request(TRUE, 404)>>
    /\ ret[c] = RetErr(HttpErr("http", 404, 0))

\* C13: a call whose first two attempts receive a 500 and whose third
\* receives a 2xx returns the body of the third response without error,
\* after exactly three attempts and two backoffs; each of the two 500s is
\* followed by a backoff and, unless the context is cancelled, not by a
\* return.
C13_SuccessAfterTwoServerErrors ==
  \A c \in Callers :
    LET st == AttemptStatuses(c)
    IN  /\ (/\ Len(st) >= 3
             /\ st[1] = 500 /\ st[2] = 500
             /\ st[3] >= 200 /\ st[3] < 300)
              => /\ Len(st) = 3
                 /\ hpc[c] = "done"
                 /\ ret[c] = RetOk(3)
                 /\ Attempts(c) = 3
                 /\ Sleeps(c) = 2
        /\ (st \in {<<500>>, <<500, 500>>} /\ LastIs(c, Request(TRUE, 500)))
              => \/ hpc[c] = "backoff" /\ ret[c] = NoRet
                 \/ ctxDone[c] /\ hpc[c] = "done" /\ ret[c] = RetErr(CtxErr)

\* 500, 500, 200.
C13_Witness ==
  \E c \in Callers :
    /\ AttemptStatuses(c) = <<500, 500, 200>>
    /\ ret[c] = RetOk(3)
    /\ Sleeps(c) = 2

\* C14: a call returns a body without error only when the status of its last
\* attempt is 2xx.
C14_SuccessOnly2xx ==
  \A c \in Callers :
    ret[c].st = "ok" =>
      LET st == AttemptStatuses(c)
      IN  st # <<>> /\ st[Len(st)] >= 200 /\ st[Len(st)] < 300

\* The standard backoff before the retry after attempt n, without jitter.
StandardDelay(n) == CASE n = 0 -> 500 [] n = 1 -> 1000 [] n = 2 -> 2000

\* C15: the delay of every backoff is the standard one of its attempt index
\* (500, 1000, 2000 milliseconds) within 30% of jitter, also after a 429:
\* the Retry-After value is in the error and not in the delay.
C15_RetryAfterNotInDelay ==
  \A c \in Callers :
    hpc[c] = "backoff" =>
      /\ attempt[c] \in 0..2
      /\ 10 * delay[c] >= 7 * StandardDelay(attempt[c])
      /\ 10 * delay[c] <= 13 * StandardDelay(attempt[c])
      /\ LastIs(c, Request(TRUE, 429)) =>
            /\ lastErr[c].kind = "rateLimited"
            /\ lastErr[c].retryAfter \in {baseRetryDelay, 7000}

\* A backoff of at most 650 milliseconds after a first attempt whose 429
\* said Retry-After: 7.
C15_Witness ==
  \E c \in Callers :
    /\ hpc[c] = "backoff"
    /\ hlog[c] = <<Admitted, Request(TRUE, 429)>>
    /\ lastErr[c].retryAfter = 7000
    /\ delay[c] <= 650

\* C19: once the context is cancelled during a backoff, the call can return
\* at once, without the delay having passed; its next step is the return
\* of the context's error, and it makes no attempt and no acquire before.
C19_CancelDuringBackoff ==
  /\ [](\A c \in Callers :
          (hpc[c] = "backoff" /\ ctxDone[c]) => ENABLED backoffCancelled(c))
  /\ [][\A c \in Callers :
          (hpc[c] = "backoff" /\ ctxDone[c]) =>
            /\ hlog'[c] = hlog[c]
            /\ attempt'[c] = attempt[c]
            /\ \/ hpc'[c] = "backoff" /\ ret'[c] = ret[c]
               \/ hpc'[c] = "done" /\ ret'[c] = RetErr(CtxErr)]_vars

\* A call cancelled during the backoff after its first attempt has returned
\* the context's error.
C19_Witness ==
  \E c \in Callers :
    /\ hpc[c] = "done"
    /\ ctxDone[c]
    /\ ret[c] = RetErr(CtxErr)
    /\ hlog[c] = <<Admitted, Request(TRUE, 500)>>

(***************************************************************************)
(* Properties of the rate limiter, checked under SpecLimiter and           *)
(* SpecLimiterFair.                                                        *)
(***************************************************************************)

\* C16: from the full bucket of a new limiter, once maxTokens calls have
\* been admitted at the instant the limiter was built, the bucket is empty
\* and no further acquire returns nil before one refill interval has passed.
C16_BurstThenRefillInterval ==
  /\ admitted > maxTokens => now >= refillRate
  /\ (admitted = maxTokens /\ now < refillRate) => tokens = 0
  /\ \A c \in Callers :
       (hpc[c] = "wait" /\ admitted = maxTokens /\ now = 0)
         => wakeAt[c] = refillRate

\* maxTokens calls were admitted at time 0, and the next caller waits for the
\* end of the first refill interval.
C16_Witness ==
  /\ now = 0
  /\ admitted = maxTokens
  /\ \E c \in Callers : hpc[c] = "wait" /\ wakeAt[c] = refillRate

\* C17: every acquire returns, and it returns nil to a caller whose context
\* is not cancelled, also while another caller waits for a token.
C17_AcquireReturns ==
  \A c \in Callers :
    (hpc[c] = "lock") ~>
      (hpc[c] = "acquired" /\ (acquired[c] = NilErr \/ ctxDone[c]))

\* Both callers are in acquire on the empty bucket: one waits for the token,
\* the other for the mutex.
C17_Witness ==
  \E c, d \in Callers :
    /\ c # d
    /\ tokens = 0
    /\ hpc[c] = "wait" /\ mu = c
    /\ hpc[d] = "lock"
    /\ ~ctxDone[c] /\ ~ctxDone[d]

\* C18: a caller in acquire whose context is cancelled can go on at once,
\* whatever the other callers do: it is never held up by another caller's
\* wait.
C18_CancelledCallerNotBlocked ==
  \A c \in Callers :
    (hpc[c] \in {"lock", "wait"} /\ ctxDone[c])
      => ENABLED (acquire(c) \/ acquireCancelled(c))

(***************************************************************************)
(* Properties of the chain cache, checked under SpecCache.                 *)
(***************************************************************************)

\* The cache is as the process starts it, or as one refresh left it.
IsSnapshot(o) ==
  \/ ~o.init /\ o.cache = EmptyChains
  \/ o.init /\ \E v \in 1..MaxVersions : o.cache = ChainsOf(v)

\* C20: while a goroutine holds the read lock the cache is either empty and
\* uninitialized or initialized with the whole list of one refresh, and that
\* is what every lookup has read of it.
C20_ReadersSeeSnapshots ==
  /\ chainsCacheMu.r # {} => IsSnapshot(Observed)
  /\ \A g \in Goroutines : IsSnapshot(cloc[g].seen)

\* A goroutine holds the read lock over the list of the second directory,
\* while the other one is about to replace the cache.
C20_Witness ==
  \E g, h \in Goroutines :
    /\ g \in chainsCacheMu.r
    /\ cpc[g] = "search"
    /\ chainsCache = ChainsOf(2)
    /\ cpc[h] = "Lock"
    /\ cloc[h].chainData # chainsCache

\* C21: a refresh whose GET or whose parsing fails leaves chainsCache and
\* chainsCacheInitialized as they are and its caller gets the error.
C21_FailedRefreshKeepsCache ==
  [][\A g \in Goroutines :
       (cpc[g] = "Get" /\ cpc'[g] = "done")
         => /\ chainsCache' = chainsCache
            /\ chainsCacheInitialized' = chainsCacheInitialized
            /\ cloc'[g].out = "error"]_vars

\* A refresh has failed over a cache that another lookup had filled.
C21_Witness ==
  \E g \in Goroutines :
    /\ cpc[g] = "done"
    /\ cloc[g].out = "error"
    /\ chainsCacheInitialized
    /\ chainsCache = ChainsOf(1)

\* C22 as stated: a lookup that found the cache initialized reports 'not
\* found' only after a refresh of its own.
C22_NotFoundOnlyAfterRefresh ==
  \A g \in Goroutines :
    (cpc[g] = "done" /\ cloc[g].initialized /\ cloc[g].out = "notFound")
      => cloc[g].chainData # EmptyChains

\* C27 as stated: transfer-token and transfer-native with an amount that is
\* zero or negative make no RPC call and simulate, sign and broadcast
\* nothing.
C27_NonPositiveAmountRejected ==
  (/\ tool \in {"transfer-token", "transfer-native"}
   /\ SetString(args.amount, 10).ok
   /\ SetString(args.amount, 10).z <= 0)
    => /\ ~Did("Dial")
       /\ ~Did("CallContract:simulate")
       /\ ~Did("SignTx")
       /\ ~Did("SendTransaction")

(***************************************************************************)
(* Properties of the inbound calls, checked under SpecApi.                 *)
(***************************************************************************)

\* C23 as stated: get-quote with the zero address as fromAddress sends no
\* upstream request.
C23_ZeroFromAddressRejected ==
  \A s \in Sessions :
    (inb[s].tool = "get-quote" /\ EqualFold(inb[s].args.fromAddress, ZeroAddress))
      => inb[s].wire = <<>>

\* An address, an amount or a chain id of the request is malformed.
Malformed(a) ==
  \/ ValidateAddress(a.fromAddress) # ""
  \/ a.toAddress # <<>> /\ ValidateAddress(a.toAddress) # ""
  \/ ValidateTokenAddress(a.fromToken) # ""
  \/ ValidateTokenAddress(a.toToken) # ""
  \/ ValidateAmount(a.fromAmount) # ""
  \/ ValidateChainID(a.fromChain) # ""
  \/ ValidateChainID(a.toChain) # ""

\* C24 as stated: get-quote, get-routes and get-quote-with-calls with a
\* malformed address, amount or chain id send no upstream request.
C24_MalformedArgsRejected ==
  \A s \in Sessions :
    (inb[s].tool \in QuoteTools /\ Malformed(inb[s].args)) => inb[s].wire = <<>>

\* C25 as stated: of the addresses ValidateAddress accepts,
\* ValidateRecipientAddress rejects exactly those whose 20 bytes are zero.
C25_RecipientRejectsExactlyZero ==
  \A s \in Sessions :
    \A a \in {inb[s].args.toAddress, inb[s].args.fromAddress} :
      ValidateAddress(a) = ""
        => (ValidateRecipientAddress(a) # "" <=> HexToAddress(a) = Rep("0", 40))

\* A string of 1 to MaxAmountDigits decimal digits, not all of them 0.
IsPositiveLiteral(a) ==
  /\ a # <<>>
  /\ Len(a) <= MaxAmountDigits
  /\ \A i \in 1..Len(a) : DigitVal(a[i]) < 10
  /\ \E i \in 1..Len(a) : a[i] # "0"

\* C26 as stated: ValidateAmount accepts exactly the base-10 literals of at
\* most 78 digits whose value is greater than zero.
C26_AmountAcceptedIffPositiveLiteral ==
  \A s \in Sessions :
    ValidateAmount(inb[s].args.fromAmount) = ""
      <=> IsPositiveLiteral(inb[s].args.fromAmount)

\* C28: every upstream request carries as x-lifi-api-key the credential of
\* the context of the call it is made for, and no such header when that
\* context has none.
C28_RequestCarriesOwnKey ==
  \A s \in Sessions :
    \A i \in DOMAIN inb[s].wire :
      inb[s].wire[i] = IF inb[s].ctx.has THEN <<inb[s].ctx.v>> ELSE <<>>

\* Two calls are upstream together, with the keys k1 and k2.
C28_Witness ==
  \E s, t \in Sessions :
    /\ inb[s].st = "upstream" /\ inb[s].wire = << <<(<<"k", "1">>)>> >>
    /\ inb[t].st = "upstream" /\ inb[t].wire = << <<(<<"k", "2">>)>> >>

\* The credential of a request: the token after "Bearer " if there is one,
\* else the custom header.
CredentialOf(auth, xkey) ==
  IF \E n \in 1..Len(auth) : auth = Bearer \o SubSeq(auth, Len(auth) - n + 1, Len(auth))
    THEN SubSeq(auth, Len(Bearer) + 1, Len(auth))
  ELSE xkey

\* C29: the context of a call carries the bearer token if the Authorization
\* header has one, else the non-empty X-LiFi-Api-Key header, else nothing;
\* APIKeyFromContext returns that value, or the empty string.
C29_ExtractedCredential ==
  \A s \in Sessions :
    inb[s].st # "idle" =>
      LET k == CredentialOf(inb[s].auth, inb[s].xkey)
      IN  /\ inb[s].ctx = IF k # <<>> THEN [has |-> TRUE, v |-> k] ELSE NoCtx
          /\ inb[s].apiKey = k

\* "Bearer " without a token falls back to the custom header.
C29_Witness ==
  \E s \in Sessions :
    /\ inb[s].st # "idle"
    /\ inb[s].auth = Bearer
    /\ inb[s].xkey = <<"k", "2">>
    /\ inb[s].apiKey = <<"k", "2">>

\* C30: a handler whose body panicked has returned an error result with a
\* nil error, the process is alive, and a session without a call can take
\* the next one.
C30_PanicRecovered ==
  /\ serving
  /\ \A s \in Sessions :
       inb[s].panicked =>
         /\ inb[s].st = "done"
         /\ inb[s].result.isError
         /\ ~inb[s].result.goErr
  /\ \A s \in Sessions : inb[s].st = "idle" => ENABLED Inbound(s)

\* One call has panicked and the server can take another.
C30_Witness ==
  \E s, t \in Sessions :
    /\ s # t
    /\ inb[s].panicked /\ inb[s].st = "done"
    /\ inb[t].st = "idle"
    /\ ENABLED Inbound(t)

(***************************************************************************)
(* The bucket and the admissions of the rate limiter under concurrent      *)
(* callers, checked under SpecLimiter.                                     *)
(***************************************************************************)

\* C32: whatever the callers do (admitted at once, admitted after the wait,
\* cancelled during the wait), the token count of the limiter is never below
\* 0 and never above maxTokens.
C32_TokensWithinBucket == tokens \in 0..maxTokens

\* One caller was admitted after its wait, the other one gave up its wait
\* on cancellation, and the bucket is empty.
C32_Witness ==
  \E c, d \in Callers :
    /\ c # d
    /\ hpc[c] = "acquired" /\ acquired[c] = NilErr /\ wakeAt[c] > 0
    /\ hpc[d] = "acquired" /\ acquired[d] = CtxErr
    /\ tokens = 0

\* C33: at every time, the calls admitted since the limiter was built are at
\* most maxTokens plus one for each refill interval that has passed, on both
\* ways out of acquire.
C33_AdmittedWithinRate == admitted <= maxTokens + now \div refillRate

\* After the burst and one refill interval one more call has been admitted,
\* out of its wait: the number of admissions is at the limit.
C33_Witness ==
  /\ now = refillRate
  /\ admitted = maxTokens + 1
  /\ \E c \in Callers :
       hpc[c] = "acquired" /\ acquired[c] = NilErr /\ wakeAt[c] = refillRate

(***************************************************************************)
(* The chain-cache lock and the upstream calls, checked under SpecCache.   *)
(***************************************************************************)

\* C34: a goroutine that is in an upstream HTTP call (and so in the rate
\* limiter and the retry loop of the client) holds the chain-cache lock
\* neither for reading nor for writing.
C34_NoLockDuringUpstreamCall ==
  \A g \in Goroutines :
    cpc[g] \in {"Get", "GetFiltered"}
      => g \notin chainsCacheMu.r /\ chainsCacheMu.w # g

\* C37: of the lookups that found the cache uninitialized at the same time,
\* at most one has sent the request for the chain directory.
C37_SingleInitialFetch ==
  \A g, h \in Goroutines :
    (/\ g # h
     /\ cpc[g] \notin {"idle", "done"} /\ ~cloc[g].initialized
     /\ cpc[h] \notin {"idle", "done"} /\ ~cloc[h].initialized)
      => ~(cloc[g].chainData # EmptyChains /\ cloc[h].chainData # EmptyChains)

\* C38: the list a refresh is about to put into the cache is never of an
\* older directory than the list the cache holds.
C38_ReplaceNotOlder ==
  \A g \in Goroutines :
    cpc[g] = "storeData" => cloc[g].chainData.data >= chainsCache.data

(***************************************************************************)
(* The signature and the broadcast of the execution engine, checked under  *)
(* SpecTx.                                                                 *)
(***************************************************************************)

\* C36: every transaction a call signs is signed for the chain id that the
\* node it is connected to reports, and that is the node it is sent to,
\* whatever the chainId field of the descriptor is.
C36_SignedForNodeChain ==
  /\ DidOk("SignTx") => loc.tx.signer = node.chainId
  /\ \A i \in DOMAIN sent : sent[i].signer = node.chainId
  /\ (DidOk("SignTx") /\ loc.tx.type = "dynamic")
       => loc.tx.chainId = node.chainId

\* execute-quote has sent a transaction whose descriptor gives the chain id
\* as a 0x-hex string.
C36_Witness ==
  /\ tool = "execute-quote"
  /\ args.txRequest.chainId = Str(<<"0", "x", "a">>)
  /\ DidOk("SendTransaction")
  /\ Len(sent) = 1

\* C39: a tool call invokes SendTransaction at most once, also when the
\* broadcast fails.
C39_BroadcastAtMostOnce ==
  /\ Len(sent) <= 1
  /\ Cardinality({i \in DOMAIN trace : trace[i].op = "SendTransaction"}) <= 1

\* The broadcast has failed and the call has returned the error.
C39_Witness ==
  /\ Finished
  /\ result.isError
  /\ Did("SendTransaction") /\ ~DidOk("SendTransaction")
  /\ Len(sent) = 1

(***************************************************************************)
(* The nonces of concurrent submissions, checked under SpecNonce.          *)
(***************************************************************************)

\* C35: no two transactions that tool calls have signed with the server's key
\* and broadcast carry the same nonce.
C35_DistinctNonces ==
  \A i, j \in DOMAIN broadcasts :
    i # j => broadcasts[i].nonce # broadcasts[j].nonce

(***************************************************************************)
(* The slippage of the quote tools, checked under SpecApi.                 *)
(***************************************************************************)

\* The string is a decimal number between 0 and 1: an optional sign, digits
\* with at most one point among them, and a value that is 0, or is positive
\* with an integer part of 0, or is 1.
IsUnitDecimal(s) ==
  LET sgn  == s # <<>> /\ s[1] \in {"+", "-"}
      body == IF sgn THEN Tail(s) ELSE s
      dots == {i \in 1..Len(body) : body[i] = "."}
      digs == {i \in 1..Len(body) : DigitVal(body[i]) < 10}
      p    == IF dots = {} THEN Len(body) + 1 ELSE CHOOSE i \in dots : TRUE
      int  == {i \in digs : i < p}
      frac == {i \in digs : i > p}
      zero(is) == \A i \in is : body[i] = "0"
  IN  /\ Cardinality(dots) <= 1
      /\ digs # {}
      /\ dots \cup digs = 1..Len(body)
      /\ IF s[1] = "-" THEN zero(digs)
         ELSE \/ zero(int)
              \/ /\ p - 1 \in int /\ body[p - 1] = "1"
                 /\ zero(int \ {p - 1})
                 /\ zero(frac)

\* C31 as stated: ValidateSlippage accepts a non-empty slippage exactly if it
\* is a decimal number between 0 and 1.
C31_SlippageAcceptedIffUnitDecimal ==
  \A s \in Sessions :
    inb[s].args.slippage # <<>>
      => (ValidateSlippage(inb[s].args.slippage) = ""
            <=> IsUnitDecimal(inb[s].args.slippage))

====
